---- MODULE Spec2Model ----
(***************************************************************************)
(* Local-Cocoa: the deep (round 2) indexing stage, DeepProcessor.process   *)
(* of services/indexer/stages/deep.py, over the relational storage and the *)
(* vector store it writes.                                                 *)
(*                                                                         *)
(* One process call is in flight at a time.  It advances in steps that end *)
(* at the awaits of the coroutine (the VLM call of a page, the embedding   *)
(* call of a batch); the code between two awaits is one atomic step.  The  *)
(* collaborators (parser, VLM, embedding client, storage, vector store)    *)
(* answer nondeterministically; every abnormal answer is counted in        *)
(* `faults`, which MaxFaults bounds.                                       *)
(*                                                                         *)
(* Spec is the deep round; SpecCancel is the deep round with cancellation  *)
(* at its awaits; SpecEligibility is _should_process_deep taken alone over *)
(* every file record; SpecQa is the question answering stream,             *)
(* SearchEngine.stream_answer of services/search/qa.py, and the one-shot   *)
(* answer() that folds it; SpecQaQueries is that stream up to the end of   *)
(* the retrieval, over every short query; SpecHealth is check_service and  *)
(* read_health of services/app/routers/health.py; SpecReindex is the deep  *)
(* round next to a writer of fast_stage; SpecSettings is the settings      *)
(* router of services/app/routers/settings.py; SpecMemory is the memory    *)
(* storage of services/storage/memory.py; SpecRouter is ContentRouter.parse *)
(* of services/core/content.py; SpecParsers is PdfDeepParser.parse and the *)
(* temporary directories of PdfDeepParser and DocVisionParser.  Each of    *)
(* them keeps the state of the other components at rest.                   *)
(***************************************************************************)
EXTENDS Integers, Sequences, FiniteSets, Bags, TLC

\* ------------------------------------------------------------------ bounds
\* A PDF on disk has 0..SmallPages pages, or MaxPages pages (page numbers of
\* two digits).
SmallPages == 2
MaxPages == 10
PageCounts == (0..SmallPages) \cup {MaxPages}
\* Abnormal collaborator answers (exceptions, empty VLM texts, short
\* embedding responses, a missing path) in one behaviour.
MaxFaults == 2
\* The configured settings.embed_batch_size is 0 or this.
MaxBatch == 2
\* settings.embed_max_chars, in tokens.
EmbedMaxChars == 2

\* ------------------------------------------------------------------- texts
\* A text is a sequence of tokens: a fence <<"F", 0>> (three backticks), a
\* newline <<"s", 0>> and a word character <<"w", n>> (n tells the words of
\* different page images apart).
Fence == <<"F", 0>>
Ws == <<"s", 0>>
Word(n) == <<"w", n>>

IsWord(tok) == tok[1] = "w"

RECURSIVE LStrip(_)
LStrip(t) == IF t # <<>> /\ Head(t) = Ws THEN LStrip(Tail(t)) ELSE t

RECURSIVE RStrip(_)
RStrip(t) ==
  IF t # <<>> /\ t[Len(t)] = Ws THEN RStrip(SubSeq(t, 1, Len(t) - 1)) ELSE t

\* str.strip()
Strip(t) == RStrip(LStrip(t))

\* The first index >= i of t that holds no word character (Len(t)+1 if none).
RECURSIVE SkipWords(_, _)
SkipWords(t, i) ==
  IF i <= Len(t) /\ IsWord(t[i]) THEN SkipWords(t, i + 1) ELSE i

\* The first index >= i of t that holds no whitespace (Len(t)+1 if none).
RECURSIVE SkipWs(_, _)
SkipWs(t, i) == IF i <= Len(t) /\ t[i] = Ws THEN SkipWs(t, i + 1) ELSE i

\* re.sub(r"^```\w*\s+|\s+```$", "", t, flags=re.MULTILINE), scanning from
\* index i: at each position the first alternative is tried, then the
\* second, else the token is copied.
RECURSIVE ReSubFrom(_, _)
ReSubFrom(t, i) ==
  IF i > Len(t) THEN <<>>
  ELSE
    LET atLineStart == i = 1 \/ t[i - 1] = Ws
        j == SkipWords(t, i + 1)
        k == SkipWs(t, j)
        open == atLineStart /\ t[i] = Fence /\ k > j
        m == SkipWs(t, i)
        close == /\ t[i] = Ws
                 /\ m <= Len(t)
                 /\ t[m] = Fence
                 /\ (m = Len(t) \/ t[m + 1] = Ws)
    IN  IF open THEN ReSubFrom(t, k)
        ELSE IF close THEN ReSubFrom(t, m + 1)
        ELSE <<t[i]>> \o ReSubFrom(t, i + 1)

\* The cleaning of a page's VLM result: strip, and when it starts with a
\* fence remove the fence wrappers and strip again.
CleanPageText(result) ==
  LET cleaned == Strip(result)
  IN  IF cleaned # <<>> /\ Head(cleaned) = Fence
        THEN Strip(ReSubFrom(cleaned, 1))
        ELSE cleaned

\* text[:n]
Take(t, n) == SubSeq(t, 1, IF Len(t) < n THEN Len(t) ELSE n)

\* "\n\n".join(texts)
RECURSIVE JoinPages(_)
JoinPages(texts) ==
  IF texts = <<>> THEN <<>>
  ELSE IF Len(texts) = 1 THEN texts[1]
  ELSE texts[1] \o <<Ws, Ws>> \o JoinPages(Tail(texts))

\* --------------------------------------------------------------- page keys
\* An attachment key "page_<N>" is its prefix and the decimal digits of N.
RECURSIVE Digits(_)
Digits(n) == IF n < 10 THEN <<n>> ELSE Digits(n \div 10) \o <<n % 10>>

\* int(key.split("_")[1])
RECURSIVE IntOf(_)
IntOf(d) ==
  IF d = <<>> THEN 0 ELSE 10 * IntOf(SubSeq(d, 1, Len(d) - 1)) + d[Len(d)]

PageKey(n) == [prefix |-> "page", digits |-> Digits(n)]
OtherKey == [prefix |-> "thumb", digits |-> <<1>>]

PageNum(key) == IntOf(key.digits)

\* Mutant: the page keys are compared as strings ("10" before "2").
RECURSIVE LexLess(_, _)
LexLess(a, b) ==
  IF a = <<>> THEN b # <<>>
  ELSE IF b = <<>> THEN FALSE
  ELSE IF a[1] # b[1] THEN a[1] < b[1]
  ELSE LexLess(Tail(a), Tail(b))

PageBeforeAsStrings(a, b) == LexLess(a.digits, b.digits)

\* The order sorted() puts two page items in: by the integer after "page_".
PageBefore(a, b) == PageNum(a) < PageNum(b)

RECURSIVE InsertPage(_, _)
InsertPage(x, s) ==
  IF s = <<>> THEN <<x>>
  ELSE IF PageBefore(x, Head(s)) THEN <<x>> \o s
  ELSE <<Head(s)>> \o InsertPage(x, Tail(s))

RECURSIVE SortPages(_)
SortPages(s) ==
  IF s = <<>> THEN <<>> ELSE InsertPage(Head(s), SortPages(Tail(s)))

\* page_images = {k: v for k in attachments if k.startswith("page_")}
RECURSIVE PageImages(_)
PageImages(att) ==
  IF att = <<>> THEN <<>>
  ELSE IF Head(att).prefix = "page" THEN <<Head(att)>> \o PageImages(Tail(att))
  ELSE PageImages(Tail(att))

\* What the vision parser hands back for a PDF of n pages: one image per
\* page under "page_1" .. "page_n", in one of the orders below, with or
\* without an attachment that is no page.
Ascending(n) == [i \in 1..n |-> PageKey(i)]
Descending(n) == [i \in 1..n |-> PageKey(n + 1 - i)]
Attachments(n) ==
  {Ascending(n), Descending(n), <<OtherKey>> \o Ascending(n)}

\* ------------------------------------------------------------ file records
FileIds == {"f1"}
\* An id storage.get_file knows nothing of.
UnknownId == "ghost"
AllIds == FileIds \cup {UnknownId}

KindExt ==
  { <<"image", "png">>, <<"document", "pdf">>, <<"document", "txt">>,
    <<"document", "docx">>, <<"presentation", "pptx">>, <<"audio", "mp3">>,
    <<"video", "mp4">>, <<"other", "pdf">> }

FastStages == {0, 1, 2, -1}
DeepStages == {0, 1, 2, -1, -2}
STAGE_DONE == 2
STAGE_FAILED == -1
STAGE_SKIPPED == -2

\* FileRecord.page_count when the fast round stored none (None).
PAGE_COUNT_UNSET == -1

\* file_record.page_count or 0
PageCountOrZero(pageCount) ==
  IF pageCount = PAGE_COUNT_UNSET THEN 0 ELSE pageCount

NoMetadata ==
  [deep_processed |-> FALSE, chunk_count_deep |-> 0, vector_chunks_deep |-> <<>>]

NewFileRecord(id, ke, preview, pageCount, fast) ==
  [id |-> id, kind |-> ke[1], extension |-> ke[2], preview_image |-> preview,
   page_count |-> pageCount, fast_stage |-> fast, deep_stage |-> 0,
   metadata |-> NoMetadata]

\* Mutant: the fast round counts as completed from fast_stage 1 on.
FastRoundPendingFromOne(rec) == rec.fast_stage < 1

\* if file_record.fast_stage < 2: return False
FastRoundPending(rec) == rec.fast_stage < 2

\* Mutant: only a deep_stage above 2 counts as done.
DeepRoundDoneAboveTwo(rec) == rec.deep_stage > 2

\* if file_record.deep_stage >= 2: return True
DeepRoundDone(rec) == rec.deep_stage >= STAGE_DONE

\* if file_record.deep_stage == -2: return True
DeepRoundSkipped(rec) == rec.deep_stage = STAGE_SKIPPED

\* Mutant: the preview image of a PDF is not looked at.
ShouldProcessDeepIgnoringPreview(rec) ==
  \/ rec.kind \in {"image", "presentation"}
  \/ /\ rec.kind = "document"
     /\ rec.extension = "pdf"
     /\ PageCountOrZero(rec.page_count) > 0

\* Mutant: every PDF document is taken, with or without page images.
ShouldProcessDeepAnyPdf(rec) ==
  \/ rec.kind \in {"image", "presentation"}
  \/ rec.kind = "document" /\ rec.extension = "pdf"

ShouldProcessDeep(rec) ==
  IF rec.kind = "image" THEN TRUE
  ELSE IF /\ rec.kind = "document"
          /\ rec.extension = "pdf"
          /\ (rec.preview_image \/ PageCountOrZero(rec.page_count) > 0)
       THEN TRUE
  ELSE IF rec.kind = "presentation" THEN TRUE
  ELSE IF rec.kind = "document" /\ rec.extension \in {"txt", "md", "csv"}
    THEN FALSE
  ELSE IF rec.kind \in {"audio", "video"} THEN FALSE
  ELSE FALSE

\* The branch of process that produces the deep text: lines 120-125.
Dispatch(rec) ==
  IF rec.kind = "image" THEN "image"
  ELSE IF rec.kind = "document" /\ rec.extension = "pdf" THEN "pdf_parse"
  ELSE IF rec.kind = "presentation" THEN "presentation"
  ELSE "persist"

\* ------------------------------------------------------------------ chunks
PageChunkId(fid, n) == <<fid, "deep", "page", n>>
FullChunkId(fid) == <<fid, "deep", "full", 0>>

\* The chunk _process_pdf builds for page_num with the cleaned text.
PageChunk(fid, pageNum, cleaned) ==
  [chunk_id |-> PageChunkId(fid, pageNum), file_id |-> fid,
   ordinal |-> pageNum - 1, text |-> cleaned,
   section_path |-> <<"page", pageNum>>, page_number |-> pageNum,
   source |-> "vlm", version |-> "deep"]

BuildDeepChunks(fid, text) ==
  IF text = <<>> \/ Strip(text) = <<>> THEN <<>>
  ELSE << [chunk_id |-> FullChunkId(fid), file_id |-> fid, ordinal |-> 0,
           text |-> text, section_path |-> <<"none", 0>>, page_number |-> 0,
           source |-> "vlm", version |-> "deep"] >>

\* for chunk in deep_chunks: chunk.version = "deep"
SetVersion(cs, v) == [i \in 1..Len(cs) |-> [cs[i] EXCEPT !.version = v]]

\* texts = [c.text.strip()[:embed_max_chars] for c in chunks if c.text.strip()]
RECURSIVE EmbedTexts(_)
EmbedTexts(cs) ==
  IF cs = <<>> THEN <<>>
  ELSE IF Strip(Head(cs).text) # <<>>
    THEN <<Take(Strip(Head(cs).text), EmbedMaxChars)>> \o EmbedTexts(Tail(cs))
  ELSE EmbedTexts(Tail(cs))

\* batch_size = max(settings.embed_batch_size, 1)
BatchSize(configured) == IF configured > 1 THEN configured ELSE 1

\* The embedding of a text: the embedding model is a function of the text.
Embedding(text) == <<"vec", text>>
EncodeBatch(batch) == [i \in 1..Len(batch) |-> Embedding(batch[i])]

Min(a, b) == IF a < b THEN a ELSE b

\* The VectorDocument of a chunk and its vector: lines 162-185.
VectorDoc(rec, chunk, vector) ==
  [doc_id |-> chunk.chunk_id, vector |-> vector, file_id |-> rec.id,
   kind |-> rec.kind, page_number |-> chunk.page_number, version |-> "deep"]

\* documents: one per pair of zip(deep_chunks, vectors)
Documents(rec, cs, vs) ==
  [i \in 1..Min(Len(cs), Len(vs)) |-> VectorDoc(rec, cs[i], vs[i])]

SeqRange(s) == {s[i] : i \in 1..Len(s)}

\* ----------------------------------------------------- storage and vectors
\* storage.update_file_stage(file_id, deep_stage=stage): one field of the row.
UpdateFileStage(fs, fid, stage) == [fs EXCEPT ![fid].deep_stage = stage]

\* storage.upsert_file(record): the row becomes the record handed in.
UpsertFile(fs, rec) == [fs EXCEPT ![rec.id] = rec]

\* storage.replace_chunks(file_id, chunks, version): the rows of
\* (file_id, version) are deleted and the new set is inserted.
ReplaceChunks(table, fid, cs, version) ==
  {c \in table : ~(c.file_id = fid /\ c.version = version)} \cup SeqRange(cs)

\* vector_store.upsert(documents): a document replaces the one of its doc_id.
VectorUpsert(store, docs) ==
  {d \in store : \A e \in docs : e.doc_id # d.doc_id} \cup docs

\* ------------------------------------------------------------------- state
VARIABLES
  files,             \* storage: file_id -> FileRecord
  chunks,            \* storage: the live chunk rows
  vectors,           \* vector store: the flushed documents
  pending,           \* vector store: the documents upserted and not flushed
  disk,              \* file_id -> the number of pages of the file on disk
  embed_batch_size,  \* settings.embed_batch_size
  pc,                \* where the process call in flight stands ("idle": none)
  cur,               \* the locals of the call in flight, or of the last call
  ret,               \* what the last call returned: "True", "False", "None"
  log,               \* the collaborator calls of the call, in order (Logged)
  pre,               \* the file's stage, chunks and vectors when it started
  active_stage,      \* state manager: the active stage, or "none"
  faults             \* abnormal collaborator answers so far

deepVars ==
  <<files, chunks, vectors, pending, disk, embed_batch_size, pc, cur, ret,
    log, pre, active_stage, faults>>

\* The eligibility predicate taken alone: a file record and the answer of
\* _should_process_deep for it.
VARIABLES
  candidate,         \* the FileRecord handed to _should_process_deep
  verdict            \* its answer: "True", "False", or "None" before the call

eligibilityVars == <<candidate, verdict>>

\* The question answering stream, SearchEngine.stream_answer of
\* services/search/qa.py.
VARIABLES
  request,           \* the QaRequest payload of the stream
  qa_pc,             \* where the generator stands ("idle": not started)
  qa,                \* the locals of the generator
  emitted,           \* the events the generator has yielded, in order
  calls,             \* the collaborator calls it has made, in order
  response           \* what answer() made of the stream, or NoResponse

qaVars == <<request, qa_pc, qa, emitted, calls, response>>

\* The service health of services/app/routers/health.py.
VARIABLES
  endpoints,         \* settings.endpoints: the URL of every service, or NoUrl
  service_cache,     \* _service_cache: key -> (ServiceStatus, time), or NoEntry
  last_probe,        \* history: key -> the last completed probe of the key
  clock,             \* time.perf_counter(), in seconds
  health_pc,         \* where read_health stands ("idle": not in flight)
  check,             \* the locals of the check_service call in flight or last
  todo,              \* the checks of read_health that have not run
  services,          \* the results of those that have
  health             \* the last HealthResponse, or NoHealth

healthVars ==
  <<endpoints, service_cache, last_probe, clock, health_pc, check, todo,
    services, health>>

\* The settings router of services/app/routers/settings.py.
VARIABLES
  settings,          \* the process-wide settings object
  settings_file,     \* what settings.save_to_file() wrote last
  handlers,          \* the update_settings calls in flight, by slot
  expected,          \* history: per field, the value of the last PATCH
                     \* that completed having set it
  last_patch,        \* history: the body of the PATCH that completed last
                     \* and the settings when its handler started, until
                     \* the next update_settings starts
  got,               \* the answer of GET /settings/ when the last step was
                     \* one, else NoGot
  last_status        \* the HTTP status when the last step answered, else 0

settingsVars ==
  <<settings, settings_file, handlers, expected, last_patch, got,
    last_status>>

\* The concurrent update_settings handlers the model follows.
MaxHandlers == 2

\* The memory storage of services/storage/memory.py.
VARIABLES
  memory_episodes,   \* the rows of table memory_episodes
  memory_event_logs, \* the rows of table memory_event_logs
  memory_foresights, \* the rows of table memory_foresights
  memory_fts,        \* the rows of the FTS5 table memory_fts, a bag: the
                     \* table has no key
  found              \* what search_memories returned when the last step was
                     \* one, else NoSearch

memoryVars ==
  <<memory_episodes, memory_event_logs, memory_foresights, memory_fts, found>>

\* The parsers: ContentRouter of services/core/content.py, PdfDeepParser of
\* services/parser/pdf_deep.py, DocVisionParser of
\* services/parser/doc_vision.py.
VARIABLES
  router_call,       \* the arguments and the surroundings of ContentRouter.parse
  router_result,     \* what it did and returned, or NoRouting
  pdf_input,         \* the PDF handed to PdfDeepParser.parse
  pdf_parsed,        \* the ParsedContent it returned, or NoParsed
  doc_tempdir,       \* DocVisionParser._tempdir: a directory, or NoDir
  image_tempdir,     \* PdfDeepParser._image_tempdir: a directory, or NoDir
  live_dirs,         \* the temporary directories that exist on disk
  last_parse         \* the last call of a parser instance and how it ended

parserVars ==
  <<router_call, router_result, pdf_input, pdf_parsed, doc_tempdir,
    image_tempdir, live_dirs, last_parse>>

\* The components modelled after the service health.
componentVars == <<settingsVars, memoryVars, parserVars>>

\* What a step of the deep round leaves alone.
outsideDeep == <<eligibilityVars, qaVars, healthVars, componentVars>>
\* What a step of the question answering stream leaves alone.
outsideQa == <<deepVars, eligibilityVars, healthVars, componentVars>>
\* What a step of the service health leaves alone.
outsideHealth == <<deepVars, eligibilityVars, qaVars, componentVars>>
\* What a step of the settings router leaves alone.
outsideSettings ==
  <<deepVars, eligibilityVars, qaVars, healthVars, memoryVars, parserVars>>
\* What a step of the memory storage leaves alone.
outsideMemory ==
  <<deepVars, eligibilityVars, qaVars, healthVars, settingsVars, parserVars>>
\* What a step of a parser leaves alone.
outsideParsers ==
  <<deepVars, eligibilityVars, qaVars, healthVars, settingsVars, memoryVars>>

vars == <<deepVars, eligibilityVars, qaVars, healthVars, componentVars>>

DeepChunksOf(fid) == {c \in chunks : c.file_id = fid /\ c.version = "deep"}
DeepVectorsOf(fid) == {d \in vectors : d.file_id = fid /\ d.version = "deep"}

NoRecord == NewFileRecord(UnknownId, <<"other", "bin">>, FALSE, 0, 0)

\* The locals of process before its first line has run.
NewCall(fid) ==
  [file |-> fid, rec |-> NoRecord, branch |-> "none", path_exists |-> TRUE,
   pages |-> <<>>,
   total_pages |-> 0, i |-> 0,
   deep_text |-> <<>>, page_results |-> <<>>, deep_chunks |-> <<>>,
   texts |-> <<>>, vecs |-> <<>>, start |-> 0, documents |-> <<>>,
   bad_pages |-> {}, raised |-> {}, short |-> FALSE, no_content |-> FALSE]

\* What is left of a call's locals once it has returned: what the call met
\* (kept for the properties below), the rest is out of scope.
Returned(c) ==
  [NewCall(c.file) EXCEPT !.branch = c.branch, !.path_exists = c.path_exists,
                          !.total_pages = c.total_pages,
                          !.bad_pages = c.bad_pages, !.raised = c.raised,
                          !.short = c.short, !.no_content = c.no_content]

\* The log with the calls `events` added; a call repeated in a row (the VLM
\* call of each page, the embedding call of each batch) is recorded once.
RECURSIVE Logged(_, _)
Logged(l, events) ==
  IF events = <<>> THEN l
  ELSE IF l # <<>> /\ l[Len(l)] = Head(events) THEN Logged(l, Tail(events))
  ELSE Logged(Append(l, Head(events)), Tail(events))

Snapshot(fid) ==
  IF fid \in DOMAIN files
    THEN [deep_stage |-> files[fid].deep_stage, chunks |-> DeepChunksOf(fid),
          vectors |-> DeepVectorsOf(fid)]
    ELSE [deep_stage |-> 0, chunks |-> {}, vectors |-> {}]

\* ------------------------------------------------ the components at rest
\* target_file_ids of stream_answer: None, or a list of file ids, kept as
\* the set of its members.
NoneIds == [is_none |-> TRUE, ids |-> {}]
IdList(ids) == [is_none |-> FALSE, ids |-> ids]

\* A request with nothing in it, and the locals of a stream not started.
NoRequest ==
  [query |-> <<>>, folder_ids |-> <<>>, search_mode |-> "auto", mode |-> "qa"]
NewStream ==
  [target_file_ids |-> NoneIds, query |-> <<>>, intent |-> "none",
   call_tools |-> FALSE, needs_decomposition |-> FALSE,
   sub_answers |-> <<>>, valid_sub_answers |-> <<>>,
   synthesis_inputs |-> <<>>, raised |-> {}]
\* answer() has returned nothing.
NoResponse == [returned |-> "None", answer |-> <<>>, hits |-> <<>>]

\* No deep round runs and storage holds one file no round has touched.
DeepQuiet ==
  /\ files = [f \in FileIds |->
               NewFileRecord(f, <<"other", "bin">>, FALSE, 0, 0)]
  /\ disk = [f \in FileIds |-> 0]
  /\ chunks = {}
  /\ vectors = {}
  /\ pending = {}
  /\ embed_batch_size = 0
  /\ pc = "idle"
  /\ cur = NewCall(UnknownId)
  /\ ret = "None"
  /\ log = <<>>
  /\ pre = Snapshot(UnknownId)
  /\ active_stage = "none"
  /\ faults = 0

\* _should_process_deep is not being asked.
EligibilityQuiet ==
  /\ candidate = NoRecord
  /\ verdict = "None"

\* No question is being answered.
QaQuiet ==
  /\ request = NoRequest
  /\ qa_pc = "idle"
  /\ qa = NewStream
  /\ emitted = <<>>
  /\ calls = <<>>
  /\ response = NoResponse

\* An endpoint URL that is not configured (None or the empty string).
NoUrl == ""
\* The names read_health gives the services, the URLs of the settings, and
\* the cache keys f"{name}:{url}".
ServiceNames == {"Embedding", "Reranker", "Vision/LLM", "Whisper"}
Urls == {"u1", "u2"}
CacheKeys == ServiceNames \X Urls

\* ServiceStatus(name, status, details); the measured latency_ms is left out.
ServiceStatus(name, status, details) ==
  [name |-> name, status |-> status, details |-> details]

\* No cache entry, no check_service call, no HealthResponse.
NoEntry == [status |-> ServiceStatus("", "none", ""), time |-> 0, set |-> FALSE]
NoCheck ==
  [name |-> "", url |-> NoUrl, now |-> 0, requests |-> <<>>,
   responses |-> <<>>, prior |-> NoEntry, hit |-> FALSE,
   result |-> ServiceStatus("", "none", "")]
NoHealth ==
  [status |-> "none", message |-> "", services |-> <<>>, indexed_files |-> 0,
   progress |-> "none"]

\* No health request is in flight, nothing is configured or cached.
HealthQuiet ==
  /\ endpoints = [embedding |-> NoUrl, rerank |-> NoUrl, vision |-> NoUrl,
                  transcription |-> NoUrl]
  /\ service_cache = [key \in CacheKeys |-> NoEntry]
  /\ last_probe = [key \in CacheKeys |-> NoEntry]
  /\ clock = 0
  /\ health_pc = "idle"
  /\ check = NoCheck
  /\ todo = <<>>
  /\ services = <<>>
  /\ health = NoHealth

\* The process-wide settings object as the settings router sees it: the
\* fields PATCH /settings/ can assign, of which three stand for the thirteen
\* (an int field, a second int field, the Literal field), and pdf_mode,
\* which the router does not name.  The defaults are those of a fresh
\* configuration.
SettingsKeys ==
  {"embed_batch_size", "search_result_limit", "default_indexing_mode"}
DefaultSettings ==
  [embed_batch_size |-> 1, search_result_limit |-> 5,
   default_indexing_mode |-> "fast", pdf_mode |-> "text"]

\* A JSON body without a key, the SettingsUpdate without a field set.
EmptyBody == [key \in {} |-> 0]

\* No PATCH has completed, no GET has answered, no handler is in flight.
NoPatch == [done |-> FALSE, body |-> EmptyBody, before |-> DefaultSettings]
NoGot == [done |-> FALSE, view |-> EmptyBody, partial |-> FALSE]
NoHandler ==
  [pc |-> "free", at |-> 0, body |-> EmptyBody, update |-> EmptyBody,
   before |-> DefaultSettings]

\* The settings are the defaults and no request has been made.
SettingsQuiet ==
  /\ settings = DefaultSettings
  /\ settings_file = DefaultSettings
  /\ handlers = [h \in 1..MaxHandlers |-> NoHandler]
  /\ expected = DefaultSettings
  /\ last_patch = NoPatch
  /\ got = NoGot
  /\ last_status = 0

\* No search of the memories has been made; the memory tables are empty.
NoSearch == [done |-> FALSE, user_id |-> "", query |-> "", rows |-> {}]
MemoryQuiet ==
  /\ memory_episodes = {}
  /\ memory_event_logs = {}
  /\ memory_foresights = {}
  /\ memory_fts = EmptyBag
  /\ found = NoSearch

\* Nothing has been routed or parsed, and no temporary directory exists.
NoDir == 0
NoRouterCall ==
  [suffix |-> "", indexing_mode |-> "fast", pdf_mode |-> "text",
   text |-> <<>>, type_error |-> FALSE, parsers |-> <<>>]
NoRouting == [done |-> FALSE, calls |-> <<>>, returned |-> ""]
NoPdf == [page_texts |-> <<>>, fails_at |-> 0, renders |-> TRUE]
NoParsed ==
  [done |-> FALSE, raised |-> FALSE, text |-> <<>>, page_count |-> 0,
   page_mapping |-> <<>>]
NoParse == [parser |-> "", ended |-> ""]
RouterQuiet ==
  /\ router_call = NoRouterCall
  /\ router_result = NoRouting
PdfDeepQuiet ==
  /\ pdf_input = NoPdf
  /\ pdf_parsed = NoParsed
TempdirsQuiet ==
  /\ doc_tempdir = NoDir
  /\ image_tempdir = NoDir
  /\ live_dirs = {}
  /\ last_parse = NoParse
ParsersQuiet == RouterQuiet /\ PdfDeepQuiet /\ TempdirsQuiet

\* The components after the service health are at rest.
ComponentsQuiet ==
  /\ SettingsQuiet
  /\ MemoryQuiet
  /\ ParsersQuiet

\* A file record as discovery and the fast round leave it: any fast stage,
\* deep_stage 0; only a PDF has pages, and the fast round stored their number.
Init ==
  /\ \E ke \in KindExt, preview \in BOOLEAN, n \in PageCounts,
        fast \in FastStages :
       /\ (ke[2] # "pdf") => (n = 0)
       /\ files = [f \in FileIds |-> NewFileRecord(f, ke, preview, n, fast)]
       /\ disk = [f \in FileIds |-> n]
  /\ chunks = {}
  /\ vectors = {}
  /\ pending = {}
  /\ embed_batch_size \in {0, MaxBatch}
  /\ pc = "idle"
  /\ cur = NewCall(UnknownId)
  /\ ret = "None"
  /\ log = <<>>
  /\ pre = Snapshot(UnknownId)
  /\ active_stage = "none"
  /\ faults = 0
  /\ EligibilityQuiet
  /\ QaQuiet
  /\ HealthQuiet
  /\ ComponentsQuiet

\* ---------------------------------------------------------- process: 78-114
\* Mutant: the path is looked at before the eligibility of the file.
StartBranchPathFirst(fid, pathExists) ==
  IF fid \notin DOMAIN files THEN "not_found"
  ELSE IF FastRoundPending(files[fid]) THEN "fast_pending"
  ELSE IF DeepRoundDone(files[fid]) THEN "already_done"
  ELSE IF DeepRoundSkipped(files[fid]) THEN "already_skipped"
  ELSE IF ~pathExists THEN "path_missing"
  ELSE IF ~ShouldProcessDeep(files[fid]) THEN "skip"
  ELSE "run"

StartBranch(fid, pathExists) ==
  IF fid \notin DOMAIN files THEN "not_found"
  ELSE IF FastRoundPending(files[fid]) THEN "fast_pending"
  ELSE IF DeepRoundDone(files[fid]) THEN "already_done"
  ELSE IF DeepRoundSkipped(files[fid]) THEN "already_skipped"
  ELSE IF ~ShouldProcessDeep(files[fid]) THEN "skip"
  ELSE IF ~pathExists THEN "path_missing"
  ELSE "run"

ProcessStart(fid) ==
  /\ pc = "idle"
  /\ \E pathExists \in BOOLEAN :
       LET branch == StartBranch(fid, pathExists)
           call == [NewCall(fid) EXCEPT
                      !.branch = branch,
                      !.path_exists = pathExists,
                      !.rec = IF fid \in DOMAIN files THEN files[fid] ELSE NoRecord]
       IN  /\ pre' = Snapshot(fid)
           /\ cur' = IF branch = "run" THEN call ELSE Returned(call)
           /\ CASE branch \in {"not_found", "fast_pending"} ->
                     /\ ret' = "False"
                     /\ log' = <<>>
                     /\ pc' = "idle"
                     /\ UNCHANGED <<files, active_stage, faults>>
                [] branch \in {"already_done", "already_skipped"} ->
                     /\ ret' = "True"
                     /\ log' = <<>>
                     /\ pc' = "idle"
                     /\ UNCHANGED <<files, active_stage, faults>>
                [] branch = "skip" ->
                     /\ files' = UpdateFileStage(files, fid, STAGE_SKIPPED)
                     /\ ret' = "True"
                     /\ log' = <<"update_file_stage">>
                     /\ pc' = "idle"
                     /\ UNCHANGED <<active_stage, faults>>
                [] branch = "path_missing" ->
                     /\ faults < MaxFaults
                     /\ faults' = faults + 1
                     /\ files' = UpdateFileStage(files, fid, STAGE_FAILED)
                     /\ ret' = "False"
                     /\ log' = <<"update_file_stage">>
                     /\ pc' = "idle"
                     /\ UNCHANGED active_stage
                [] OTHER ->
                     /\ ret' = "None"
                     /\ log' = <<"set_active_stage">>
                     /\ active_stage' = "deep_vision"
                     /\ pc' = Dispatch(files[fid])
                     /\ UNCHANGED <<files, faults>>
  /\ UNCHANGED <<chunks, vectors, pending, disk, embed_batch_size>>
  /\ UNCHANGED outsideDeep

\* except Exception: update_file_stage(deep_stage=-1); return False, and the
\* finally clause: lines 212-218.
Fail(step, events) ==
  /\ faults < MaxFaults
  /\ cur' = Returned([cur EXCEPT !.raised = @ \cup {step}])
  /\ files' = UpdateFileStage(files, cur.file, STAGE_FAILED)
  /\ ret' = "False"
  /\ log' = Logged(log, events \o <<"update_file_stage", "reset_active_state">>)
  /\ active_stage' = "none"
  /\ pc' = "idle"
  /\ faults' = faults + 1


\* ------------------------------------------------- VLM answers (collaborator)
\* What the VLM may answer for the image n (0: the file's own image): no
\* text, a blank text, the description, padded or wrapped in a code fence.
Body(n) == <<Word(n), Ws, Word(n)>>
VlmTexts(n) ==
  { <<>>, <<Ws>>, Body(n), <<Ws>> \o Body(n) \o <<Ws>>,
    <<Fence, Word(0), Ws>> \o Body(n) \o <<Ws, Fence>> }

\* ------------------------------------------------- _process_image: 249-270
ProcessImage ==
  /\ pc = "image"
  /\ \/ \* no preview image and open(record.path) fails: return None
        /\ ~cur.rec.preview_image
        /\ faults < MaxFaults
        /\ faults' = faults + 1
        /\ cur' = [cur EXCEPT !.deep_text = <<>>]
        /\ log' = log
     \/ \* the VLM call raises: logged, return None
        /\ faults < MaxFaults
        /\ faults' = faults + 1
        /\ cur' = [cur EXCEPT !.deep_text = <<>>, !.raised = @ \cup {"vlm"}]
        /\ log' = Logged(log, <<"vlm">>)
     \/ \E text \in VlmTexts(0) :
          /\ (Strip(text) = <<>>) => faults < MaxFaults
          /\ faults' = IF Strip(text) = <<>> THEN faults + 1 ELSE faults
          /\ cur' = [cur EXCEPT !.deep_text = text]
          /\ log' = Logged(log, <<"vlm">>)
  /\ pc' = "persist"
  /\ UNCHANGED <<files, chunks, vectors, pending, disk, embed_batch_size, ret,
                 pre, active_stage>>
  /\ UNCHANGED outsideDeep

\* ------------------------------------------ _process_presentation: 351-364
ProcessPresentation ==
  /\ pc = "presentation"
  /\ \/ \* no preview image: return None
        /\ ~cur.rec.preview_image
        /\ cur' = [cur EXCEPT !.deep_text = <<>>]
        /\ log' = log
        /\ UNCHANGED faults
     \/ \* the VLM call raises: logged, return None
        /\ cur.rec.preview_image
        /\ faults < MaxFaults
        /\ faults' = faults + 1
        /\ cur' = [cur EXCEPT !.deep_text = <<>>, !.raised = @ \cup {"vlm"}]
        /\ log' = Logged(log, <<"vlm">>)
     \/ /\ cur.rec.preview_image
        /\ \E text \in VlmTexts(0) :
             /\ (Strip(text) = <<>>) => faults < MaxFaults
             /\ faults' = IF Strip(text) = <<>> THEN faults + 1 ELSE faults
             /\ cur' = [cur EXCEPT !.deep_text = text]
             /\ log' = Logged(log, <<"vlm">>)
  /\ pc' = "persist"
  /\ UNCHANGED <<files, chunks, vectors, pending, disk, embed_batch_size, ret,
                 pre, active_stage>>
  /\ UNCHANGED outsideDeep

\* --------------------------------------------------- _process_pdf: 272-295
ParsePdf ==
  /\ pc = "pdf_parse"
  /\ \/ \* content_router.parse raises: logged, return None, []
        /\ faults < MaxFaults
        /\ faults' = faults + 1
        /\ cur' = [cur EXCEPT !.raised = @ \cup {"parse"}]
        /\ pc' = "persist"
     \/ \E att \in Attachments(disk[cur.file]) :
          LET sorted_pages == SortPages(PageImages(att))
          IN  /\ cur' = [cur EXCEPT !.pages = sorted_pages,
                                    !.total_pages = Len(sorted_pages), !.i = 1]
              /\ pc' = IF sorted_pages = <<>> THEN "persist" ELSE "pdf_page"
              /\ UNCHANGED faults
  /\ log' = Logged(log, <<"parse">>)
  /\ UNCHANGED <<files, chunks, vectors, pending, disk, embed_batch_size, ret,
                 pre, active_stage>>
  /\ UNCHANGED outsideDeep

\* Mutant: a VLM call that raises ends the loop.
NextIndexBreakOnError(pages, i, raised) ==
  IF raised THEN Len(pages) + 1 ELSE i + 1

\* The loop variable after the page at index i: the for loop goes on with
\* the next page whether the VLM call raised (logged, lines 345-346) or not.
NextIndex(pages, i, raised) == i + 1

\* ------------------------------- _process_pdf, one page of the loop: 297-349
\* After the last page: combined_text = "\n\n".join(page_results) or None.
PdfPage ==
  /\ pc = "pdf_page"
  /\ LET page_num == PageNum(cur.pages[cur.i])
         done(c) == IF c.i > Len(c.pages)
                      THEN [c EXCEPT !.deep_text = JoinPages(c.page_results)]
                      ELSE c
         next(c) == IF c.i > Len(c.pages) THEN "persist" ELSE "pdf_page"
     IN  \/ \* the VLM call raises
            /\ faults < MaxFaults
            /\ faults' = faults + 1
            /\ cur' = done([cur EXCEPT !.i = NextIndex(cur.pages, @, TRUE),
                                       !.bad_pages = @ \cup {page_num},
                                       !.raised = @ \cup {"vlm"}])
         \/ \E result \in VlmTexts(page_num) :
              LET cleaned == CleanPageText(result)
              IN  /\ (cleaned = <<>>) => faults < MaxFaults
                  /\ faults' = IF cleaned = <<>> THEN faults + 1 ELSE faults
                  /\ cur' =
                       done(IF cleaned # <<>>
                              THEN [cur EXCEPT
                                      !.i = NextIndex(cur.pages, @, FALSE),
                                      !.page_results = Append(@, cleaned),
                                      !.deep_chunks =
                                        Append(@, PageChunk(cur.rec.id, page_num,
                                                            cleaned))]
                              ELSE [cur EXCEPT
                                      !.i = NextIndex(cur.pages, @, FALSE),
                                      !.bad_pages = @ \cup {page_num}])
  /\ pc' = IF cur'.i > Len(cur'.pages) THEN "persist" ELSE "pdf_page"
  /\ log' = Logged(log, <<"vlm">>)
  /\ UNCHANGED <<files, chunks, vectors, pending, disk, embed_batch_size, ret,
                 pre, active_stage>>
  /\ UNCHANGED outsideDeep

\* ------------------------------------------------------- process: 127-156
Persist ==
  /\ pc = "persist"
  /\ IF cur.deep_text = <<>> /\ cur.deep_chunks = <<>>
       THEN \* nothing extracted: deep_stage = 2, return True (and finally)
            /\ files' = UpdateFileStage(files, cur.file, STAGE_DONE)
            /\ cur' = Returned([cur EXCEPT !.no_content = TRUE])
            /\ ret' = "True"
            /\ log' = Logged(log, <<"update_file_stage", "reset_active_state">>)
            /\ active_stage' = "none"
            /\ pc' = "idle"
            /\ UNCHANGED <<chunks, faults>>
       ELSE LET built == IF cur.deep_chunks = <<>>
                           THEN BuildDeepChunks(cur.rec.id, cur.deep_text)
                           ELSE cur.deep_chunks
                deep_chunks == SetVersion(built, "deep")
                texts == EmbedTexts(deep_chunks)
            IN  \/ \* replace_chunks succeeds
                   /\ chunks' = ReplaceChunks(chunks, cur.file, deep_chunks, "deep")
                   /\ cur' = [cur EXCEPT !.deep_chunks = deep_chunks,
                                         !.texts = texts, !.start = 1]
                   /\ log' = Logged(log, <<"replace_chunks">>)
                               \o (IF deep_chunks # <<>>
                                     THEN <<"set_active_stage">> ELSE <<>>)
                   /\ active_stage' = IF deep_chunks # <<>>
                                        THEN "deep_embed" ELSE active_stage
                   /\ pc' = IF deep_chunks # <<>> /\ texts # <<>>
                              THEN "embed" ELSE "finish"
                   /\ UNCHANGED <<files, ret, faults>>
                \/ \* replace_chunks raises
                   /\ Fail("replace_chunks", <<"replace_chunks">>)
                   /\ UNCHANGED chunks
  /\ UNCHANGED <<vectors, pending, disk, embed_batch_size, pre>>
  /\ UNCHANGED outsideDeep

\* Mutant: a batch runs one text into the next batch.
BatchOverlapping(texts, start, batch_size) ==
  SubSeq(texts, start, Min(start + batch_size, Len(texts)))

\* batch = texts[start:start + batch_size], start counted from 1 here.
Batch(texts, start, batch_size) ==
  SubSeq(texts, start, Min(start + batch_size - 1, Len(texts)))

\* ------------------------------- _embed_chunks, one batch: lines 397-400
EmbedBatch ==
  /\ pc = "embed"
  /\ LET batch_size == BatchSize(embed_batch_size)
         batch == Batch(cur.texts, cur.start, batch_size)
         next == cur.start + batch_size
         extended(vs) == [cur EXCEPT !.vecs = @ \o vs, !.start = next]
         short(c) == [c EXCEPT !.short = TRUE]
         goOn == /\ pc' = IF next > Len(cur.texts) THEN "finish" ELSE "embed"
                 /\ log' = Logged(log, <<"embed">>)
                 /\ UNCHANGED <<files, ret, active_stage>>
     IN  \/ \* one vector per text of the batch
            /\ cur' = extended(EncodeBatch(batch))
            /\ goOn
            /\ UNCHANGED faults
         \/ \* the client answers with one vector too few
            /\ faults < MaxFaults
            /\ faults' = faults + 1
            /\ cur' = short(extended(EncodeBatch(SubSeq(batch, 1, Len(batch) - 1))))
            /\ goOn
         \/ \* encode raises
            Fail("embed", <<"embed">>)
  /\ UNCHANGED <<chunks, vectors, pending, disk, embed_batch_size, pre>>
  /\ UNCHANGED outsideDeep

\* Mutant: the stage is written before the vectors are.
FinishCallsStageFirst(hasDocuments, upserted, fileOk) ==
  <<"upsert_file">>
  \o (IF hasDocuments THEN <<"upsert">> ELSE <<>>)
  \o (IF upserted THEN <<"flush">> ELSE <<>>)
  \o (IF fileOk THEN <<>> ELSE <<"update_file_stage">>)
  \o <<"reset_active_state">>

\* The collaborator calls of lines 187-218, in the order of the code: the
\* upsert when there are documents, the flush when the upsert returned, the
\* final upsert_file, the handler's update_file_stage when that raised, and
\* the finally clause.
FinishCalls(hasDocuments, upserted, fileOk) ==
  (IF hasDocuments THEN <<"upsert">> ELSE <<>>)
  \o (IF upserted THEN <<"flush">> ELSE <<>>)
  \o <<"upsert_file">>
  \o (IF fileOk THEN <<>> ELSE <<"update_file_stage">>)
  \o <<"reset_active_state">>

\* --------------------------------------------------- process: 158-218
\* The documents, the vector upsert and flush (their failure is logged and
\* swallowed), the metadata summary and the final upsert_file.
Finish ==
  /\ pc = "finish"
  /\ LET embedded == cur.deep_chunks # <<>>
         documents == IF embedded
                        THEN Documents(cur.rec, cur.deep_chunks, cur.vecs)
                        ELSE <<>>
         metadata == IF embedded
                       THEN [deep_processed |-> TRUE,
                             chunk_count_deep |-> Len(cur.deep_chunks),
                             vector_chunks_deep |->
                               [i \in 1..Len(documents) |-> documents[i].doc_id]]
                       ELSE cur.rec.metadata
         file_record == [cur.rec EXCEPT !.deep_stage = STAGE_DONE,
                                        !.metadata = metadata]
     IN  \E upsertOk, flushOk, fileOk \in BOOLEAN :
           LET upserted == documents # <<>> /\ upsertOk
               flushed == upserted /\ flushOk
               nfaults == (IF documents # <<>> /\ ~upsertOk THEN 1 ELSE 0)
                            + (IF upserted /\ ~flushOk THEN 1 ELSE 0)
                            + (IF fileOk THEN 0 ELSE 1)
               staged == IF upserted
                           THEN VectorUpsert(pending, SeqRange(documents))
                           ELSE pending
           IN  /\ (documents = <<>>) => upsertOk
               /\ (~upserted) => flushOk
               /\ faults + nfaults <= MaxFaults
               /\ faults' = faults + nfaults
               /\ vectors' = IF flushed THEN VectorUpsert(vectors, staged)
                                        ELSE vectors
               /\ pending' = IF flushed THEN {} ELSE staged
               /\ files' = IF fileOk
                             THEN UpsertFile(files, file_record)
                             ELSE UpdateFileStage(files, cur.file, STAGE_FAILED)
               /\ ret' = IF fileOk THEN "True" ELSE "False"
               /\ cur' = Returned([cur EXCEPT
                            !.raised =
                              @ \cup (IF documents # <<>> /\ ~upsertOk
                                        THEN {"upsert"} ELSE {})
                                \cup (IF upserted /\ ~flushOk
                                        THEN {"flush"} ELSE {})
                                \cup (IF fileOk THEN {} ELSE {"upsert_file"})])
               /\ log' = Logged(log,
                             FinishCalls(documents # <<>>, upserted, fileOk))
  /\ active_stage' = "none"
  /\ pc' = "idle"
  /\ UNCHANGED <<chunks, disk, embed_batch_size, pre>>
  /\ UNCHANGED outsideDeep

Next ==
  \/ \E fid \in AllIds : ProcessStart(fid)
  \/ ProcessImage
  \/ ProcessPresentation
  \/ ParsePdf
  \/ PdfPage
  \/ Persist
  \/ EmbedBatch
  \/ Finish

Spec == Init /\ [][Next]_vars

\* ------------------------------------------ process cancelled at an await
\* The steps that end at an await of the coroutine: the VLM call of the
\* image, of the slide and of a PDF page, the parse handed to a thread, the
\* embedding call of a batch.
AwaitingSteps == {"image", "presentation", "pdf_parse", "pdf_page", "embed"}

\* Mutant: the cancellation leaves process without the finally clause.
CancelWithoutFinally ==
  /\ pc \in AwaitingSteps
  /\ faults < MaxFaults
  /\ faults' = faults + 1
  /\ cur' = Returned([cur EXCEPT !.raised = @ \cup {"cancelled"}])
  /\ ret' = "Cancelled"
  /\ pc' = "idle"
  /\ UNCHANGED <<files, chunks, vectors, pending, disk, embed_batch_size, pre,
                 log, active_stage>>
  /\ UNCHANGED outsideDeep

\* The task running process is cancelled while it waits: CancelledError is
\* raised at the await; it is no Exception, so neither the handlers of the
\* helpers nor the one at line 212 catch it, the finally clause (217-218)
\* runs and the error leaves process.
Cancel ==
  /\ pc \in AwaitingSteps
  /\ (pc = "presentation") => cur.rec.preview_image
  /\ faults < MaxFaults
  /\ faults' = faults + 1
  /\ cur' = Returned([cur EXCEPT !.raised = @ \cup {"cancelled"}])
  /\ ret' = "Cancelled"
  /\ log' = Logged(log, <<"reset_active_state">>)
  /\ active_stage' = "none"
  /\ pc' = "idle"
  /\ UNCHANGED <<files, chunks, vectors, pending, disk, embed_batch_size, pre>>
  /\ UNCHANGED outsideDeep

NextCancellable ==
  \/ Next
  \/ Cancel

SpecCancel == Init /\ [][NextCancellable]_vars

\* ------------------------------------ process with a concurrent writer
\* Another task (a re-index request, the fast round) stores a fast_stage
\* for the file while process waits at one of its awaits:
\* storage.update_file_stage(file_id, fast_stage=stage).
ResetFastStage(fid, stage) ==
  /\ pc \in AwaitingSteps
  /\ files[fid].fast_stage # stage
  /\ files' = [files EXCEPT ![fid].fast_stage = stage]
  /\ UNCHANGED <<chunks, vectors, pending, disk, embed_batch_size, pc, cur,
                 ret, log, pre, active_stage, faults>>
  /\ UNCHANGED outsideDeep

NextWithWriter ==
  \/ Next
  \/ \E fid \in FileIds, stage \in FastStages : ResetFastStage(fid, stage)

SpecReindex == Init /\ [][NextWithWriter]_vars

\* ------------------------------------------- _should_process_deep alone
\* The file records the predicate is asked about: every kind with every
\* extension, with and without a preview image, with no page count, with
\* page_count 0 and with a positive one.
Kinds == {"image", "document", "presentation", "audio", "video", "other"}
Extensions == {"png", "pdf", "txt", "md", "csv", "docx", "pptx"}
CandidatePageCounts == {PAGE_COUNT_UNSET} \cup (0..SmallPages)
Candidates ==
  { NewFileRecord("f1", <<kind, extension>>, preview, pageCount, STAGE_DONE) :
      kind \in Kinds, extension \in Extensions, preview \in BOOLEAN,
      pageCount \in CandidatePageCounts }

EligibilityInit ==
  /\ candidate \in Candidates
  /\ verdict = "None"
  /\ DeepQuiet
  /\ QaQuiet
  /\ HealthQuiet
  /\ ComponentsQuiet

\* self._should_process_deep(file_record)
ShouldProcessDeepCall ==
  /\ verdict = "None"
  /\ verdict' = IF ShouldProcessDeep(candidate) THEN "True" ELSE "False"
  /\ UNCHANGED <<candidate, deepVars, qaVars, healthVars, componentVars>>

SpecEligibility == EligibilityInit /\ [][ShouldProcessDeepCall]_vars

\* ================================================= question answering stream
\* SearchEngine.stream_answer (services/search/qa.py 118-332): an async
\* generator.  A step runs it to its next await of a collaborator (intent
\* routing, query analysis, a retrieval pipeline, an LLM stream) and through
\* that collaborator's answer; `emitted` holds the events yielded so far.

\* A query has at most MaxMentions @mentions, a request at most MaxFolderIds
\* folder ids, an LLM stream at most MaxTokens chunks.
MaxMentions == 1
MaxFolderIds == 1
MaxTokens == 1

\* The files storage knows, by name and by folder.  The name "zz" matches no
\* file and the folder "d0" holds none.
QaFileIds == {"q1", "q2", "q3"}
QaNames == {"a", "b", "zz"}
QaFolders == {"d1", "d2", "d0"}

\* storage.find_files_by_name(fname), as the ids of the files found
FindFilesByName(fname) ==
  CASE fname = "a" -> {"q1", "q2"}
    [] fname = "b" -> {"q3"}
    [] OTHER -> {}

\* storage.get_files_in_folder(folder_id), as the ids of the files found
GetFilesInFolder(folder_id) ==
  CASE folder_id = "d1" -> {"q2", "q3"}
    [] folder_id = "d2" -> {"q1"}
    [] OTHER -> {}

\* A query is a sequence of tokens: a word of plain text, a white space
\* character (blank or tab), the mention @name (which runs to the next white
\* space) and the quoted mention @"name".
Text == <<"text", "">>
Space == <<"ws", " ">>
Tab == <<"ws", "\t">>
At(name) == <<"at", name>>
AtQuoted(name) == <<"atq", name>>

IsMention(tok) == tok[1] \in {"at", "atq"}
IsSpace(tok) == tok[1] = "ws"

SeqsUpTo(S, n) == UNION {[1..k -> S] : k \in 0..n}

Queries ==
  {<<Text>> \o mentions :
     mentions \in SeqsUpTo({At(name) : name \in QaNames}, MaxMentions)}

Requests ==
  [query : Queries,
   folder_ids : SeqsUpTo(QaFolders, MaxFolderIds),
   search_mode : {"auto", "direct", "knowledge"},
   mode : {"qa", "chat"}]

\* file_filters: the names of re.findall(r'@(?:"([^"]+)"|(\S+))', query)
FileFilters(query) ==
  LET mentions == SelectSeq(query, IsMention)
  IN  [i \in 1..Len(mentions) |-> mentions[i][2]]

\* re.sub(r'@(?:"[^"]+"|[^\s]+)', '', query): line 147
RemoveMentions(query) == SelectSeq(query, LAMBDA tok : ~IsMention(tok))

RECURSIVE LStripQuery(_)
LStripQuery(q) ==
  IF q # <<>> /\ IsSpace(Head(q)) THEN LStripQuery(Tail(q)) ELSE q

RECURSIVE RStripQuery(_)
RStripQuery(q) ==
  IF q # <<>> /\ IsSpace(q[Len(q)])
    THEN RStripQuery(SubSeq(q, 1, Len(q) - 1)) ELSE q

\* query.strip()
StripQuery(q) == RStripQuery(LStripQuery(q))

\* Mutant: the white space is left as it is.
CollapseSpacesNot(q) == q

\* re.sub(r'\s+', ' ', query): every run of white space becomes one blank.
RECURSIVE CollapseSpaces(_)
CollapseSpaces(q) ==
  IF q = <<>> THEN <<>>
  ELSE IF IsSpace(Head(q))
    THEN <<Space>> \o CollapseSpaces(LStripQuery(q))
    ELSE <<Head(q)>> \o CollapseSpaces(Tail(q))

\* The query with the mentions removed: lines 147-148.
CleanQuery(query) ==
  StripQuery(CollapseSpaces(StripQuery(RemoveMentions(query))))

\* Mechanism 1, lines 145-159: target_file_ids after the mentions.
MentionScope(query) ==
  LET file_filters == FileFilters(query)
  IN  IF file_filters # <<>>
        THEN IdList(UNION {FindFilesByName(file_filters[i]) :
                             i \in 1..Len(file_filters)})
        ELSE NoneIds

\* if target_file_ids: a list that is not None and not empty
Truthy(target) == ~target.is_none /\ target.ids # {}

\* Mechanism 2, lines 162-177: target_file_ids after the folder ids.
FolderScope(target, folder_ids) ==
  IF folder_ids = <<>> THEN target
  ELSE LET folder_file_ids ==
             UNION {GetFilesInFolder(folder_ids[i]) : i \in 1..Len(folder_ids)}
       IN  IF folder_file_ids # {}
             THEN IF Truthy(target)
                    THEN IdList(target.ids \cap folder_file_ids)
                    ELSE IdList(folder_file_ids)
             ELSE target

TargetFileIds(req) == FolderScope(MentionScope(req.query), req.folder_ids)

\* Mutant: only search_mode "direct" skips the search.
DirectModeBySearchModeOnly(req) == req.search_mode = "direct"

\* if search_mode == "direct" or payload.mode == "chat": line 180
DirectMode(req) == req.search_mode = "direct" \/ req.mode = "chat"

\* Mutant: no search_mode forces the retrieval.
KnowledgeModeNever(req) == req.search_mode = "forced"

\* if search_mode == "knowledge": line 202
KnowledgeMode(req) == req.search_mode = "knowledge"

\* An event of the stream, and a hits event with the file ids of its hits.
Event(type, data) == [type |-> type, data |-> data, hits |-> {}]
HitsEvent(ids) == [type |-> "hits", data |-> "", hits |-> ids]

\* The chunks of an LLM stream: text, or white space only.
Chunks == {"chunk", " "}
ChunkStreams == SeqsUpTo(Chunks, MaxTokens)
\* yield {"type": "token", "data": chunk} for every chunk
Tokens(llm_chunks) == [i \in 1..Len(llm_chunks) |-> Event("token", llm_chunks[i])]

NotFoundText == "I couldn't find any relevant documents."

\* A collaborator call with the query and the allowlist handed to it.
Call(op, query, target) ==
  [op |-> op, query |-> query, target_file_ids |-> target]

\* What intent routing may answer: a dict with or without its two keys.
RoutingResults ==
  { [intent |-> "document", call_tools |-> "True"],
    [intent |-> "greeting", call_tools |-> "False"],
    [intent |-> "chitchat", call_tools |-> "False"],
    [intent |-> "missing", call_tools |-> "missing"] }

\* routing_result.get("intent", "document")
IntentOf(result) ==
  IF result.intent = "missing" THEN "document" ELSE result.intent
\* routing_result.get("call_tools", True)
CallToolsOf(result) == result.call_tools # "False"

\* The hits a pipeline may return under an allowlist: files of the allowlist
\* (all of them, or one), any file when the allowlist is None.
HitSets(target) ==
  LET allowed == IF target.is_none THEN QaFileIds ELSE target.ids
  IN  {ids \in {allowed} \cup {{id} : id \in allowed} : ids # {}}

\* A verified candidate of the Standard pipeline: has_answer and its
\* confidence in tenths (5 is 0.5), CONFIDENCE_UNSET when the key is absent.
CONFIDENCE_UNSET == -1
SubAnswer(index, has_answer, confidence) ==
  [index |-> index, has_answer |-> has_answer, confidence |-> confidence]

\* The sub_answers event of the Standard pipeline.
SubAnswers ==
  { <<>>,
    <<SubAnswer(1, TRUE, 9)>>,
    <<SubAnswer(1, TRUE, 5)>>,
    <<SubAnswer(1, TRUE, 3)>>,
    <<SubAnswer(1, TRUE, CONFIDENCE_UNSET)>>,
    <<SubAnswer(1, FALSE, 9)>>,
    <<SubAnswer(1, FALSE, 3), SubAnswer(2, TRUE, 9)>>,
    <<SubAnswer(1, TRUE, 3), SubAnswer(2, TRUE, 9)>> }

\* What a run of the Standard pipeline that finds files may yield: its hits
\* (or none) alone, or the hits of every allowed file with the events of the
\* chunk verification and the sub answers.
StandardRuns(target) ==
  {[hits |-> ids, progress |-> FALSE, sub_answers |-> <<>>] :
     ids \in HitSets(target) \cup {{}}}
  \cup {[hits |-> ids, progress |-> TRUE, sub_answers |-> answers] :
          ids \in {h \in HitSets(target) : \A g \in HitSets(target) : g \subseteq h},
          answers \in SubAnswers}

\* What a run of the MultiPath pipeline may yield before its done event:
\* the hits events of its sub-queries and the tokens of its answer.
MultiPathRuns(target) ==
  {[hits |-> <<>>, llm_chunks |-> <<>>]}
  \cup {[hits |-> <<ids>>, llm_chunks |-> llm_chunks] :
          ids \in HitSets(target), llm_chunks \in ChunkStreams}
  \cup {[hits |-> <<ids, other>>, llm_chunks |-> <<>>] :
          ids \in HitSets(target), other \in HitSets(target)}

\* One hits event for each set of hits.
HitsEventsOf(hits) == [i \in 1..Len(hits) |-> HitsEvent(hits[i])]

QaInit ==
  /\ request \in Requests
  /\ qa_pc = "idle"
  /\ qa = NewStream
  /\ emitted = <<>>
  /\ calls = <<>>
  /\ response = NoResponse
  /\ DeepQuiet
  /\ EligibilityQuiet
  /\ HealthQuiet
  /\ ComponentsQuiet

\* Lines 122-210: the scope, the first status event and the choice of path.
StreamStart ==
  /\ qa_pc = "idle"
  /\ LET query == IF FileFilters(request.query) # <<>>
                    THEN CleanQuery(request.query) ELSE request.query
         scoped == [NewStream EXCEPT
                      !.target_file_ids = TargetFileIds(request),
                      !.query = query]
     IN  IF DirectMode(request)
           THEN /\ emitted' = <<Event("status", "answering")>>
                /\ qa' = scoped
                /\ qa_pc' = "direct"
         ELSE IF KnowledgeMode(request)
           THEN /\ emitted' = <<Event("status", "searching")>>
                /\ qa' = [scoped EXCEPT !.intent = "document",
                                        !.call_tools = TRUE]
                /\ qa_pc' = "analyze"
         ELSE /\ emitted' = <<Event("status", "searching")>>
              /\ qa' = scoped
              /\ qa_pc' = "routing"
  /\ UNCHANGED <<request, calls>>
  /\ UNCHANGED response
  /\ UNCHANGED outsideQa

\* An LLM stream relayed as token events; when it raises, an error event;
\* then done: lines 192-196 and 233-239.
Relayed(llm_chunks, failed) ==
  Tokens(llm_chunks)
  \o (IF failed THEN <<Event("error", "LLM generation failed.")>> ELSE <<>>)
  \o <<Event("done", "")>>

\* The collaborators that have raised, with `op` among them when it did.
Raised(stream, op, failed) ==
  [stream EXCEPT !.raised = IF failed THEN @ \cup {op} ELSE @]

\* Lines 180-197: the direct answer.
DirectAnswer ==
  /\ qa_pc = "direct"
  /\ \E llm_chunks \in ChunkStreams, failed \in BOOLEAN :
       /\ emitted' = emitted \o Relayed(llm_chunks, failed)
       /\ qa' = Raised(qa, "stream_chat_complete", failed)
  /\ calls' = Append(calls, Call("stream_chat_complete", request.query, NoneIds))
  /\ qa_pc' = "finished"
  /\ UNCHANGED request
  /\ UNCHANGED response
  /\ UNCHANGED outsideQa

\* Lines 208-214: intent routing on the cleaned query.
Routing ==
  /\ qa_pc = "routing"
  /\ calls' = Append(calls, Call("query_intent_routing", qa.query, NoneIds))
  /\ \/ \* the call raises: the exception leaves the generator
        /\ qa_pc' = "raised"
        /\ qa' = Raised(qa, "query_intent_routing", TRUE)
        /\ UNCHANGED emitted
     \/ \E result \in RoutingResults :
          /\ qa' = [qa EXCEPT !.intent = IntentOf(result),
                              !.call_tools = CallToolsOf(result)]
          /\ IF CallToolsOf(result)
               THEN /\ qa_pc' = "analyze"
                    /\ UNCHANGED emitted
               ELSE /\ qa_pc' = "no_tools"
                    /\ emitted' = Append(emitted, Event("status", "direct_answer"))
  /\ UNCHANGED request
  /\ UNCHANGED response
  /\ UNCHANGED outsideQa

\* Lines 216-240: the answer without tools.
NoToolsAnswer ==
  /\ qa_pc = "no_tools"
  /\ \E llm_chunks \in ChunkStreams, failed \in BOOLEAN :
       /\ emitted' = emitted \o Relayed(llm_chunks, failed)
       /\ qa' = Raised(qa, "stream_chat_complete", failed)
  /\ calls' = Append(calls, Call("stream_chat_complete", request.query, NoneIds))
  /\ qa_pc' = "finished"
  /\ UNCHANGED request
  /\ UNCHANGED response
  /\ UNCHANGED outsideQa

\* Mutant: the Standard pipeline whatever the analysis says.
PipelineOfStandardOnly(needs_decomposition) == "standard"

\* if analysis["needs_decomposition"]: line 252
PipelineOf(needs_decomposition) ==
  IF needs_decomposition THEN "multipath" ELSE "standard"

\* Lines 246-252: query analysis; its exception is logged and the default
\* analysis (no decomposition) stands.
Analyze ==
  /\ qa_pc = "analyze"
  /\ calls' = Append(calls, Call("analyze_query", qa.query, NoneIds))
  /\ \E raised \in BOOLEAN, answer \in BOOLEAN :
       LET needs_decomposition == ~raised /\ answer
       IN  /\ raised => ~answer
           /\ qa' = [Raised(qa, "analyze_query", raised)
                       EXCEPT !.needs_decomposition = needs_decomposition]
           /\ qa_pc' = PipelineOf(needs_decomposition)
  /\ UNCHANGED <<request, emitted>>
  /\ UNCHANGED response
  /\ UNCHANGED outsideQa

\* Lines 252-261: the MultiPath pipeline, its events passed on as they come.
MultiPath ==
  /\ qa_pc = "multipath"
  /\ calls' = Append(calls, Call("multipath_pipeline.execute", qa.query,
                                 qa.target_file_ids))
  /\ \E run \in MultiPathRuns(qa.target_file_ids), raised \in BOOLEAN :
       /\ raised => (run.llm_chunks = <<>>)
       /\ emitted' = emitted
                       \o <<Event("thinking_step", "")>>
                       \o HitsEventsOf(run.hits)
                       \o Tokens(run.llm_chunks)
                       \o (IF raised THEN <<>> ELSE <<Event("done", "")>>)
       /\ qa' = Raised(qa, "multipath_pipeline.execute", raised)
       /\ qa_pc' = IF raised THEN "raised" ELSE "finished"
  /\ UNCHANGED request
  /\ UNCHANGED response
  /\ UNCHANGED outsideQa

\* Lines 263-304: the Standard pipeline and the relay of its events.
Standard ==
  /\ qa_pc = "standard"
  /\ calls' = Append(calls, Call("standard_pipeline.execute", qa.query,
                                 qa.target_file_ids))
  /\ \/ \* done_internal "No matching files found."
        /\ emitted' = emitted \o <<Event("thinking_step", ""),
                                   Event("done", NotFoundText)>>
        /\ qa_pc' = "finished"
        /\ UNCHANGED qa
     \/ \* hits (or none), the chunk verification and the sub answers
        \E run \in StandardRuns(qa.target_file_ids) :
          /\ emitted' = emitted
                          \o <<Event("thinking_step", "")>>
                          \o HitsEventsOf(IF run.hits # {} THEN <<run.hits>>
                                                           ELSE <<>>)
                          \o (IF run.progress
                                THEN <<Event("chunk_progress", ""),
                                       Event("chunk_analysis", "")>>
                                ELSE <<>>)
          /\ qa' = [qa EXCEPT
                      !.sub_answers = run.sub_answers,
                      !.valid_sub_answers =
                        SelectSeq(run.sub_answers, LAMBDA ans : ans.has_answer)]
          /\ qa_pc' = "synthesis"
     \/ \* the pipeline raises, before or after its hits
        \E ids \in HitSets(qa.target_file_ids) \cup {{}} :
          /\ emitted' = emitted
                          \o HitsEventsOf(IF ids # {} THEN <<ids>> ELSE <<>>)
          /\ qa' = Raised(qa, "standard_pipeline.execute", TRUE)
          /\ qa_pc' = "raised"
  /\ UNCHANGED request
  /\ UNCHANGED response
  /\ UNCHANGED outsideQa

\* Lines 305-312: an input of the synthesis, with
\* ans.get("confidence", 1.0) in tenths.
SynthesisInput(ans) ==
  [index |-> ans.index,
   confidence |-> IF ans.confidence = CONFIDENCE_UNSET THEN 10
                  ELSE ans.confidence]

\* Lines 305-332: the synthesis of the answer.
Synthesis ==
  /\ qa_pc = "synthesis"
  /\ calls' = Append(calls, Call("stream_simple_aggregation", qa.query, NoneIds))
  /\ \E llm_chunks \in ChunkStreams, failed \in BOOLEAN :
       /\ emitted' = emitted
                       \o Tokens(llm_chunks)
                       \o (IF failed
                             THEN <<Event("error", "synthesis failed")>>
                             ELSE <<Event("thinking_step", "synthesize")>>)
                       \o <<Event("done", "")>>
       /\ qa' = [Raised(qa, "stream_simple_aggregation", failed)
                   EXCEPT !.synthesis_inputs =
                     [i \in 1..Len(qa.valid_sub_answers) |->
                        SynthesisInput(qa.valid_sub_answers[i])]]
  /\ qa_pc' = "finished"
  /\ UNCHANGED request
  /\ UNCHANGED response
  /\ UNCHANGED outsideQa

\* ------------------------------------------------------------------ answer
\* SearchEngine.answer (services/search/qa.py 47-115) runs stream_answer to
\* its end and folds its events.  A text is kept as the sequence of its
\* pieces; a piece is white space (" ", "\n") or has none at its ends.
IsBlank(piece) == piece \in {" ", "\n"}

RECURSIVE LStripText(_)
LStripText(t) ==
  IF t # <<>> /\ IsBlank(Head(t)) THEN LStripText(Tail(t)) ELSE t

RECURSIVE RStripText(_)
RStripText(t) ==
  IF t # <<>> /\ IsBlank(t[Len(t)])
    THEN RStripText(SubSeq(t, 1, Len(t) - 1)) ELSE t

\* full_answer.strip()
StripText(t) == RStripText(LStripText(t))

\* Mutant: the error events are dropped.
AnswerStepWithoutErrors(acc, event) ==
  CASE event.type = "token" ->
         [acc EXCEPT !.full_answer = Append(@, event.data)]
    [] event.type = "hits" ->
         [acc EXCEPT !.all_hits = Append(@, event.hits)]
    [] OTHER -> acc

\* Lines 58-91: one turn of the loop over the events.  The hits of an event
\* are kept as the set the event carries.
AnswerStep(acc, event) ==
  CASE event.type = "token" ->
         [acc EXCEPT !.full_answer = Append(@, event.data)]
    [] event.type = "hits" ->
         [acc EXCEPT !.all_hits = Append(@, event.hits)]
    [] event.type = "error" ->
         [acc EXCEPT !.full_answer = @ \o <<"\n", "Error: ", event.data>>]
    [] OTHER -> acc

RECURSIVE AnswerLoop(_, _)
AnswerLoop(acc, events) ==
  IF events = <<>> THEN acc
  ELSE AnswerLoop(AnswerStep(acc, Head(events)), Tail(events))

\* Lines 47-115: the response of answer() once the stream has ended, by its
\* return or by an exception.
Answer ==
  /\ qa_pc \in {"finished", "raised"}
  /\ response = NoResponse
  /\ LET acc == AnswerLoop([full_answer |-> <<>>, all_hits |-> <<>>], emitted)
     IN  response' =
           IF qa_pc = "raised"
             THEN [returned |-> "QaResponse",
                   answer |-> <<"An error occurred: ", "exception">>,
                   hits |-> <<>>]
             ELSE [returned |-> "QaResponse",
                   answer |-> StripText(acc.full_answer),
                   hits |-> acc.all_hits]
  /\ UNCHANGED <<request, qa_pc, qa, emitted, calls>>
  /\ UNCHANGED outsideQa

QaNext ==
  \/ StreamStart
  \/ DirectAnswer
  \/ Routing
  \/ NoToolsAnswer
  \/ Analyze
  \/ MultiPath
  \/ Standard
  \/ Synthesis
  \/ Answer

SpecQa == QaInit /\ [][QaNext]_vars

\* ------------------------------------------------- the stream over queries
\* stream_answer from its start to the end of the retrieval, in search_mode
\* "auto", over every query of at most MaxQueryLen tokens.  A mention @name
\* runs to the next white space, so white space or the end follows it, and
\* two words of plain text in a row are one word.
MaxQueryLen == 5
QueryTokens == {Text, Space, Tab, At("a"), AtQuoted("b")}
WellFormed(q) ==
  \A i \in 1..(Len(q) - 1) :
    /\ q[i][1] = "at" => IsSpace(q[i + 1])
    /\ ~(q[i] = Text /\ q[i + 1] = Text)
AllQueries ==
  {q \in SeqsUpTo(QueryTokens, MaxQueryLen) : q # <<>> /\ WellFormed(q)}

QueryRequests ==
  [query : AllQueries, folder_ids : {<<>>}, search_mode : {"auto"},
   mode : {"qa"}]

QaQueriesInit ==
  /\ request \in QueryRequests
  /\ qa_pc = "idle"
  /\ qa = NewStream
  /\ emitted = <<>>
  /\ calls = <<>>
  /\ response = NoResponse
  /\ DeepQuiet
  /\ EligibilityQuiet
  /\ HealthQuiet
  /\ ComponentsQuiet

\* The steps of the stream that hand the query to a collaborator of the
\* search.
QaSearchNext ==
  \/ StreamStart
  \/ Routing
  \/ Analyze
  \/ MultiPath
  \/ Standard

SpecQaQueries == QaQueriesInit /\ [][QaSearchNext]_vars

\* ============================================================ service health
\* check_service and read_health of services/app/routers/health.py.  One
\* /health request is in flight at a time.  asyncio.gather runs its checks
\* interleaved; their names differ, so each reads and writes its own cache
\* key, and the model runs them one after the other in the order of the
\* list.  A step of a check ends at its await of an HTTP request; the clock
\* may advance between any two steps.

\* _SERVICE_CACHE_TTL, in seconds
SERVICE_CACHE_TTL == 10
\* The clock advances by half the TTL, at most MaxTicks times.
MaxTicks == 3
HalfTtl == SERVICE_CACHE_TTL \div 2

\* The settings a process may run with: both required endpoints on one URL,
\* or one of them not configured and an optional service configured.
EndpointConfigs ==
  { [embedding |-> "u1", rerank |-> "u1", vision |-> NoUrl,
     transcription |-> NoUrl],
    [embedding |-> NoUrl, rerank |-> "u2", vision |-> "u1",
     transcription |-> NoUrl],
    [embedding |-> "u1", rerank |-> NoUrl, vision |-> NoUrl,
     transcription |-> "u2"] }

\* What an HTTP request may answer: a response with a status code, or a
\* transport error (connection refused, timeout).
StatusCodes == {200, 404, 499, 500}
Response(status_code) == [raised |-> FALSE, status_code |-> status_code]
TransportError == [raised |-> TRUE, status_code |-> 0]
Answers == {Response(code) : code \in StatusCodes} \cup {TransportError}

\* storage.counts()[0] and indexer.status(), as read_health reads them.
FileCounts == {0, 1}
Progresses ==
  { [status |-> "idle", message |-> "", last_error |-> ""],
    [status |-> "running", message |-> "indexing", last_error |-> ""],
    [status |-> "paused", message |-> "", last_error |-> ""],
    [status |-> "idle", message |-> "", last_error |-> "failed"] }

\* Lines 78-85: the checks of read_health, in order.
Checks(e) ==
  <<<<"Embedding", e.embedding>>, <<"Reranker", e.rerank>>>>
  \o (IF e.vision # NoUrl THEN <<<<"Vision/LLM", e.vision>>>> ELSE <<>>)
  \o (IF e.transcription # NoUrl THEN <<<<"Whisper", e.transcription>>>>
      ELSE <<>>)

\* Mutant: an entry is still used when it is exactly TTL old.
FreshUpToTtl(now, cached_time) == now - cached_time <= SERVICE_CACHE_TTL

\* now - cached_time < _SERVICE_CACHE_TTL: line 30
Fresh(now, cached_time) == now - cached_time < SERVICE_CACHE_TTL

\* Mutant: a fallback on every client error.
NotFoundAnyClientError(status_code) == status_code >= 400 /\ status_code < 500

\* response.status_code == 404: line 40
NotFound(status_code) == status_code = 404

\* Lines 47-51: the result for the last response.
ResultOf(name, status_code) ==
  IF 200 <= status_code /\ status_code < 500
    THEN ServiceStatus(name, "online", "")
    ELSE ServiceStatus(name, "offline", "HTTP 5xx")

\* A check_service call has returned `result`: read_health has its result
\* and goes on to the next check.
Returns(result) ==
  /\ services' = Append(services, result)
  /\ todo' = Tail(todo)
  /\ health_pc' = "gather"

\* Lines 55-57: the probe is over; its result is cached with the time of
\* its end.  last_probe keeps the last completed probe of every key.
Probed(call, result) ==
  LET entry == [status |-> result, time |-> clock, set |-> TRUE]
  IN  /\ service_cache' = [service_cache EXCEPT ![<<call.name, call.url>>] = entry]
      /\ last_probe' = [last_probe EXCEPT ![<<call.name, call.url>>] = entry]
      /\ check' = [call EXCEPT !.result = result]
      /\ Returns(result)

HealthInit ==
  /\ endpoints \in EndpointConfigs
  /\ service_cache = [key \in CacheKeys |-> NoEntry]
  /\ last_probe = [key \in CacheKeys |-> NoEntry]
  /\ clock = 0
  /\ health_pc = "idle"
  /\ check = NoCheck
  /\ todo = <<>>
  /\ services = <<>>
  /\ health = NoHealth
  /\ DeepQuiet
  /\ EligibilityQuiet
  /\ QaQuiet
  /\ ComponentsQuiet

\* Lines 61-87: read_health up to the gather of its checks.
ReadHealthStart ==
  /\ health_pc = "idle"
  /\ todo' = Checks(endpoints)
  /\ services' = <<>>
  /\ check' = NoCheck
  /\ health' = NoHealth
  /\ health_pc' = "gather"
  /\ UNCHANGED <<endpoints, service_cache, last_probe, clock>>
  /\ UNCHANGED outsideHealth

\* Lines 21-33: check_service(name, url) up to its first request, with
\* use_cache at its default True.
CheckStart ==
  /\ health_pc = "gather"
  /\ todo # <<>>
  /\ LET name == Head(todo)[1]
         url == Head(todo)[2]
         call == [NoCheck EXCEPT !.name = name, !.url = url, !.now = clock]
     IN  IF url = NoUrl
           THEN LET result == ServiceStatus(name, "unknown", "URL not configured")
                IN  /\ check' = [call EXCEPT !.result = result]
                    /\ Returns(result)
         ELSE LET cached == service_cache[<<name, url>>]
                  asked == [call EXCEPT !.prior = last_probe[<<name, url>>]]
              IN  IF cached.set /\ Fresh(clock, cached.time)
                    THEN /\ check' = [asked EXCEPT !.hit = TRUE,
                                                   !.result = cached.status]
                         /\ Returns(cached.status)
                    ELSE /\ check' = asked
                         /\ health_pc' = "probe_health"
                         /\ UNCHANGED <<todo, services>>
  /\ UNCHANGED <<endpoints, service_cache, last_probe, clock, health>>
  /\ UNCHANGED outsideHealth

\* Lines 37-41 and 47-57: GET <url>/health and what follows its answer.
ProbeHealth ==
  /\ health_pc = "probe_health"
  /\ \E answer \in Answers :
       LET call == [check EXCEPT !.requests = Append(@, "/health"),
                                 !.responses = Append(@, answer)]
       IN  IF answer.raised
             THEN Probed(call, ServiceStatus(call.name, "offline",
                                             "transport error"))
           ELSE IF NotFound(answer.status_code)
             THEN /\ check' = call
                  /\ health_pc' = "probe_root"
                  /\ UNCHANGED <<service_cache, last_probe, todo, services>>
           ELSE Probed(call, ResultOf(call.name, answer.status_code))
  /\ UNCHANGED <<endpoints, clock, health>>
  /\ UNCHANGED outsideHealth

\* Lines 42-57: the fallback GET <url> and what follows its answer.
ProbeRoot ==
  /\ health_pc = "probe_root"
  /\ \E answer \in Answers :
       LET call == [check EXCEPT !.requests = Append(@, "/"),
                                 !.responses = Append(@, answer)]
       IN  IF answer.raised
             THEN Probed(call, ServiceStatus(call.name, "offline",
                                             "transport error"))
             ELSE Probed(call, ResultOf(call.name, answer.status_code))
  /\ UNCHANGED <<endpoints, clock, health>>
  /\ UNCHANGED outsideHealth

\* Lines 69-75: status and message before the services are looked at.
BaseStatus(file_count, progress) ==
  IF progress.status \in {"running", "paused"} THEN "indexing"
  ELSE IF file_count # 0 THEN "ready" ELSE "idle"
BaseMessage(progress) ==
  LET message == IF progress.last_error # "" THEN progress.last_error
                 ELSE progress.message
  IN  IF progress.status = "paused" /\ message = ""
        THEN "Indexing paused." ELSE message

\* Mutant: only the first service is looked at.
AnyOfflineFirstOnly(statuses) ==
  statuses # <<>> /\ statuses[1].status = "offline"

\* any(s.status == "offline" for s in services): line 90
AnyOffline(statuses) ==
  \E i \in 1..Len(statuses) : statuses[i].status = "offline"

\* Lines 62-75 and 89-101: the response of read_health once its checks
\* have returned.  The counts of storage and the status of the indexer do
\* not depend on the checks and are drawn here, where they are used.
ReadHealthFinish ==
  /\ health_pc = "gather"
  /\ todo = <<>>
  /\ \E file_count \in FileCounts, progress \in Progresses :
       health' =
         IF AnyOffline(services)
           THEN [status |-> "degraded",
                 message |-> IF BaseMessage(progress) = ""
                               THEN "Some AI services are offline."
                               ELSE BaseMessage(progress),
                 services |-> services,
                 indexed_files |-> file_count,
                 progress |-> progress.status]
           ELSE [status |-> BaseStatus(file_count, progress),
                 message |-> BaseMessage(progress),
                 services |-> services,
                 indexed_files |-> file_count,
                 progress |-> progress.status]
  /\ health_pc' = "idle"
  /\ UNCHANGED <<endpoints, service_cache, last_probe, clock, check, todo,
                 services>>
  /\ UNCHANGED outsideHealth

\* time.perf_counter() advances.
Tick ==
  /\ clock + HalfTtl <= MaxTicks * HalfTtl
  /\ clock' = clock + HalfTtl
  /\ UNCHANGED <<endpoints, service_cache, last_probe, health_pc, check, todo,
                 services, health>>
  /\ UNCHANGED outsideHealth

HealthNext ==
  \/ ReadHealthStart
  \/ CheckStart
  \/ ProbeHealth
  \/ ProbeRoot
  \/ ReadHealthFinish
  \/ Tick

SpecHealth == HealthInit /\ [][HealthNext]_vars

\* ---------------------------------------------- settings router: settings.py
\* A value of a JSON request or response body.
JInt(n) == [json |-> "int", int |-> n, str |-> ""]
JStr(s) == [json |-> "str", int |-> 0, str |-> s]

\* A PATCH body carries at most MaxBodyKeys keys.
MaxBodyKeys == 2

\* The keys a client posts and the values it posts for each.
BodyKeys == SettingsKeys \cup {"pdf_mode"}
PostedValues(key) ==
  CASE key = "embed_batch_size" -> {JInt(0), JInt(2), JStr("x")}
    [] key = "search_result_limit" -> {JInt(-1)}
    [] key = "default_indexing_mode" -> {JStr("deep"), JStr("fine")}
    [] key = "pdf_mode" -> {JStr("vision")}
Bodies ==
  UNION { { body \in [K -> UNION {PostedValues(key) : key \in K}] :
              \A key \in K : body[key] \in PostedValues(key) } :
          K \in {K \in SUBSET BodyKeys : Cardinality(K) <= MaxBodyKeys} }

\* Lines 11-24: the declared type of a field of SettingsUpdate.
FieldType(key) ==
  IF key = "default_indexing_mode" THEN "Literal" ELSE "int"

\* Lines 11-24: what the request model accepts for a field: an integer for
\* Optional[int], "fast" or "deep" for the Literal.
Accepted(key, value) ==
  IF FieldType(key) = "int"
    THEN value.json = "int"
    ELSE value.json = "str" /\ value.str \in {"fast", "deep"}

\* The body passes the validation of SettingsUpdate; a key the model does
\* not declare is ignored.
Valid(body) ==
  \A key \in DOMAIN body \cap SettingsKeys : Accepted(key, body[key])

\* The SettingsUpdate instance of a valid body: the fields that are not None.
SettingsUpdate(body) ==
  [key \in DOMAIN body \cap SettingsKeys |->
     IF body[key].json = "int" THEN body[key].int ELSE body[key].str]

\* Lines 29-43 and 79-93: the dictionary of the settings both handlers
\* answer with, as JSON.
SettingsView(s) ==
  [key \in SettingsKeys |->
     IF FieldType(key) = "int" THEN JInt(s[key]) ELSE JStr(s[key])]

\* Lines 48-73: the order of the assignments of update_settings.
FieldOrder ==
  <<"embed_batch_size", "search_result_limit", "default_indexing_mode">>

\* A handler slot is free (NoHandler), pending (the request was validated
\* and its coroutine waits for the event loop) or running.
Pending(body) ==
  [pc |-> "pending", at |-> 0, body |-> body, update |-> SettingsUpdate(body),
   before |-> DefaultSettings]

\* Mutant: a handler is resumed whatever the others are doing.
LoopIdleAlways == TRUE

\* Lines 27-28 and 46-47: get_settings and update_settings are coroutines
\* without an await, so the event loop runs one from its first line to its
\* return before it starts another.
LoopIdle == \A h \in 1..MaxHandlers : handlers[h].pc # "running"

\* The settings with every field of the update assigned.
Applied(s, update) ==
  [key \in DOMAIN s |-> IF key \in DOMAIN update THEN update[key] ELSE s[key]]

\* A running update_settings has assigned some of its fields and not all.
PartlyApplied(h) ==
  /\ handlers[h].pc = "running"
  /\ settings # handlers[h].before
  /\ settings # Applied(handlers[h].before, handlers[h].update)

SettingsInit ==
  /\ SettingsQuiet
  /\ MemoryQuiet
  /\ ParsersQuiet
  /\ DeepQuiet
  /\ EligibilityQuiet
  /\ QaQuiet
  /\ HealthQuiet

\* PATCH /settings/ with a body the request model accepts: the handler is
\* scheduled, in the lowest free slot.
PatchArrive(h, body) ==
  /\ handlers[h].pc = "free"
  /\ Valid(body)
  /\ \A lower \in 1..(h - 1) : handlers[lower].pc # "free"
  /\ handlers' = [handlers EXCEPT ![h] = Pending(body)]
  /\ got' = NoGot
  /\ last_status' = 0
  /\ UNCHANGED <<settings, settings_file, expected, last_patch>>
  /\ UNCHANGED outsideSettings

\* PATCH /settings/ with a body the request model refuses: 422, and
\* update_settings is not called.
PatchRejected(body) ==
  /\ ~Valid(body)
  /\ last_status' = 422
  /\ got' = NoGot
  /\ UNCHANGED <<settings, settings_file, handlers, expected, last_patch>>
  /\ UNCHANGED outsideSettings

\* Line 47: update_settings starts.
PatchStart(h) ==
  /\ handlers[h].pc = "pending"
  /\ LoopIdle
  /\ handlers' = [handlers EXCEPT ![h].pc = "running", ![h].at = 1,
                                  ![h].before = settings]
  /\ last_patch' = NoPatch
  /\ got' = NoGot
  /\ last_status' = 0
  /\ UNCHANGED <<settings, settings_file, expected>>
  /\ UNCHANGED outsideSettings

\* Lines 48-73: one `if update.<field> is not None: settings.<field> = ...`.
PatchField(h) ==
  /\ handlers[h].pc = "running"
  /\ handlers[h].at <= Len(FieldOrder)
  /\ LET key == FieldOrder[handlers[h].at]
         update == handlers[h].update
     IN  settings' = IF key \in DOMAIN update
                       THEN [settings EXCEPT ![key] = update[key]]
                       ELSE settings
  /\ handlers' = [handlers EXCEPT ![h].at = @ + 1]
  /\ got' = NoGot
  /\ last_status' = 0
  /\ UNCHANGED <<settings_file, expected, last_patch>>
  /\ UNCHANGED outsideSettings

\* Lines 75-94: settings.save_to_file() and the answer.
PatchSave(h) ==
  /\ handlers[h].pc = "running"
  /\ handlers[h].at = Len(FieldOrder) + 1
  /\ settings_file' = settings
  /\ expected' = Applied(expected, handlers[h].update)
  /\ last_patch' = [done |-> TRUE, body |-> handlers[h].body,
                    before |-> handlers[h].before]
  /\ last_status' = 200
  /\ handlers' = [handlers EXCEPT ![h] = NoHandler]
  /\ got' = NoGot
  /\ UNCHANGED settings
  /\ UNCHANGED outsideSettings

\* Lines 27-43: GET /settings/.
GetSettings ==
  /\ LoopIdle
  /\ got' = [done |-> TRUE, view |-> SettingsView(settings),
             partial |-> \E h \in 1..MaxHandlers : PartlyApplied(h)]
  /\ last_status' = 200
  /\ UNCHANGED <<settings, settings_file, handlers, expected, last_patch>>
  /\ UNCHANGED outsideSettings

SettingsNext ==
  \/ \E h \in 1..MaxHandlers, body \in Bodies : PatchArrive(h, body)
  \/ \E body \in Bodies : PatchRejected(body)
  \/ \E h \in 1..MaxHandlers : PatchStart(h)
  \/ \E h \in 1..MaxHandlers : PatchField(h)
  \/ \E h \in 1..MaxHandlers : PatchSave(h)
  \/ GetSettings

SpecSettings == SettingsInit /\ [][SettingsNext]_vars

\* ----------------------------------------- memory storage: storage/memory.py
\* The ids and the users of the memories; the three tables hold at most
\* MaxMemoryRows rows together.
MemoryIds == {"m1", "m2"}
UserIds == {"alice", "bob"}
MaxMemoryRows == 3

\* An Optional[str] that is None, and `x or ''`.
NoText == "<None>"
OrEmpty(text) == IF text = NoText THEN "" ELSE text

\* Lines 15-44: the records handed to the upserts.  The timestamp, the
\* metadata and the parent episode do not reach memory_fts and are left out.
EpisodeRecords ==
  [id : MemoryIds, user_id : UserIds, summary : {"trip", "plan"},
   episode : {NoText, "paris"}, subject : {NoText}]
EventLogRecords ==
  [id : MemoryIds, user_id : UserIds, atomic_fact : {"trip", "fact"}]
ForesightRecords ==
  [id : MemoryIds, user_id : UserIds, content : {"plan"},
   evidence : {NoText, "trip"}]

\* Lines 143-156: INSERT INTO memory_episodes ... ON CONFLICT(id) DO UPDATE
\* SET summary, episode, subject (and timestamp, metadata).
UpsertEpisodeRow(table, record) ==
  IF \E row \in table : row.id = record.id
    THEN { IF row.id = record.id
             THEN [row EXCEPT !.summary = record.summary,
                              !.episode = record.episode,
                              !.subject = record.subject]
             ELSE row : row \in table }
    ELSE table \cup {record}

\* Lines 226-238: ... ON CONFLICT(id) DO UPDATE SET atomic_fact (and
\* timestamp, parent_episode_id, metadata).
UpsertEventLogRow(table, record) ==
  IF \E row \in table : row.id = record.id
    THEN { IF row.id = record.id
             THEN [row EXCEPT !.atomic_fact = record.atomic_fact]
             ELSE row : row \in table }
    ELSE table \cup {record}

\* Lines 295-307: ... ON CONFLICT(id) DO UPDATE SET content, evidence (and
\* parent_episode_id, metadata).
UpsertForesightRow(table, record) ==
  IF \E row \in table : row.id = record.id
    THEN { IF row.id = record.id
             THEN [row EXCEPT !.content = record.content,
                              !.evidence = record.evidence]
             ELSE row : row \in table }
    ELSE table \cup {record}

\* A row of memory_fts; its content is the list of the pieces of the
\* f-string that made it.
FtsRow(content, user_id, memory_type, memory_id) ==
  [content |-> content, user_id |-> user_id, memory_type |-> memory_type,
   memory_id |-> memory_id]

\* Mutant: the rows of the memory are left in place.
FtsKeepAll(fts, memory_id, memory_type) == fts

\* DELETE FROM memory_fts WHERE memory_id = ? AND memory_type = '<type>'
FtsDelete(fts, memory_id, memory_type) ==
  [r \in {r \in DOMAIN fts :
            ~(r.memory_id = memory_id /\ r.memory_type = memory_type)}
     |-> fts[r]]

\* INSERT INTO memory_fts (content, user_id, memory_type, memory_id)
FtsInsert(fts, r) == fts (+) SetToBag({r})

\* Line 162: f"{record.summary} {record.episode or ''} {record.subject or ''}"
EpisodeContent(record) ==
  <<record.summary, " ", OrEmpty(record.episode), " ",
    OrEmpty(record.subject)>>
\* Line 246: record.atomic_fact
EventLogContent(record) == <<record.atomic_fact>>
\* Line 313: f"{record.content} {record.evidence or ''}"
ForesightContent(record) ==
  <<record.content, " ", OrEmpty(record.evidence)>>

\* A row of id memory_id can be stored: it replaces one, or there is room.
CanStore(table, memory_id) ==
  \/ \E row \in table : row.id = memory_id
  \/ Cardinality(memory_episodes) + Cardinality(memory_event_logs)
       + Cardinality(memory_foresights) < MaxMemoryRows

MemoryInit ==
  /\ MemoryQuiet
  /\ SettingsQuiet
  /\ ParsersQuiet
  /\ DeepQuiet
  /\ EligibilityQuiet
  /\ QaQuiet
  /\ HealthQuiet

\* Lines 135-166: upsert_episode(record), one transaction.
UpsertEpisode(record) ==
  /\ CanStore(memory_episodes, record.id)
  /\ memory_episodes' = UpsertEpisodeRow(memory_episodes, record)
  /\ memory_fts' =
       FtsInsert(FtsDelete(memory_fts, record.id, "episode"),
                 FtsRow(EpisodeContent(record), record.user_id, "episode",
                        record.id))
  /\ found' = NoSearch
  /\ UNCHANGED <<memory_event_logs, memory_foresights>>
  /\ UNCHANGED outsideMemory

\* Lines 206-214: delete_episode(episode_id).
DeleteEpisode(episode_id) ==
  /\ memory_episodes' = {row \in memory_episodes : row.id # episode_id}
  /\ memory_fts' = FtsDelete(memory_fts, episode_id, "episode")
  /\ found' = NoSearch
  /\ UNCHANGED <<memory_event_logs, memory_foresights>>
  /\ UNCHANGED outsideMemory

\* Lines 218-247: upsert_event_log(record).
UpsertEventLog(record) ==
  /\ CanStore(memory_event_logs, record.id)
  /\ memory_event_logs' = UpsertEventLogRow(memory_event_logs, record)
  /\ memory_fts' =
       FtsInsert(FtsDelete(memory_fts, record.id, "event_log"),
                 FtsRow(EventLogContent(record), record.user_id, "event_log",
                        record.id))
  /\ found' = NoSearch
  /\ UNCHANGED <<memory_episodes, memory_foresights>>
  /\ UNCHANGED outsideMemory

\* Lines 288-317: upsert_foresight(record).
UpsertForesight(record) ==
  /\ CanStore(memory_foresights, record.id)
  /\ memory_foresights' = UpsertForesightRow(memory_foresights, record)
  /\ memory_fts' =
       FtsInsert(FtsDelete(memory_fts, record.id, "foresight"),
                 FtsRow(ForesightContent(record), record.user_id, "foresight",
                        record.id))
  /\ found' = NoSearch
  /\ UNCHANGED <<memory_episodes, memory_event_logs>>
  /\ UNCHANGED outsideMemory

\* memory_fts MATCH ?: the query is one word, and a row matches when the
\* word is one of the words of its content.
Matches(content, query) == \E i \in 1..Len(content) : content[i] = query

\* Lines 413-436: search_memories(user_id, query); the limit is above the
\* number of rows, the score and the order are left out.
SearchMemories(user_id, query) ==
  /\ found' =
       [done |-> TRUE, user_id |-> user_id, query |-> query,
        rows |-> { [memory_id |-> r.memory_id, memory_type |-> r.memory_type,
                    content |-> r.content] :
                   r \in {r \in BagToSet(memory_fts) :
                            Matches(r.content, query) /\ r.user_id = user_id} }]
  /\ UNCHANGED <<memory_episodes, memory_event_logs, memory_foresights,
                 memory_fts>>
  /\ UNCHANGED outsideMemory

MemoryNext ==
  \/ \E record \in EpisodeRecords : UpsertEpisode(record)
  \/ \E episode_id \in MemoryIds : DeleteEpisode(episode_id)
  \/ \E record \in EventLogRecords : UpsertEventLog(record)
  \/ \E record \in ForesightRecords : UpsertForesight(record)
  \/ \E user_id \in UserIds : SearchMemories(user_id, "trip")

SpecMemory == MemoryInit /\ [][MemoryNext]_vars

\* ------------------------------------------- ContentRouter: core/content.py
\* A parser of the router's list: its name and the suffixes it takes.  The
\* parser classes are outside services/core/content.py; their suffixes are
\* the ones their names say (DocVisionParser: doc_vision.py line 15).
Parser(name, suffixes) == [name |-> name, suffixes |-> suffixes]

\* Lines 76-86: the default list, in order; and two lists handed to the
\* constructor, in which two parsers take the same suffix.
DefaultParsers ==
  <<Parser("text", {".txt"}), Parser("markdown", {".md"}),
    Parser("pdf", {".pdf"}), Parser("doc", {".doc"}),
    Parser("docx", {".docx"}), Parser("image", {".png"}),
    Parser("video", {".mp4"}), Parser("audio", {".mp3"}),
    Parser("general", {})>>
ParserLists ==
  { DefaultParsers,
    <<Parser("doc_vision", {".doc", ".docx"}), Parser("docx", {".docx"})>>,
    <<Parser("docx", {".docx"}), Parser("doc_vision", {".doc", ".docx"})>> }

\* path.suffix of the paths handed to the router, and str.lower() on them.
Suffixes == {".pdf", ".PDF", ".txt", ".docx", ".xyz", ""}
Lower(suffix) == IF suffix = ".PDF" THEN ".pdf" ELSE suffix

\* What the text parser extracts from a PDF.
PdfTexts == {<<>>, <<" ", "\n">>, <<"a">>, <<" ", "a">>}

\* The calls of ContentRouter.parse: the path's suffix, indexing_mode,
\* settings.pdf_mode, the text the PDF text parser extracts, whether the
\* parsers refuse the keyword arguments (TypeError), and the parser list.
RouterCalls ==
  [suffix : Suffixes, indexing_mode : {"fast", "deep", "fine"},
   pdf_mode : {"text", "vision"}, text : PdfTexts, type_error : BOOLEAN,
   parsers : ParserLists]

\* select_parser(parsers, path): the name of the first parser of the list
\* that takes the suffix of the path, "" (None) when none does.
SelectParser(parsers, suffix) ==
  LET matching == {i \in 1..Len(parsers) : Lower(suffix) \in parsers[i].suffixes}
  IN  IF matching = {}
        THEN ""
        ELSE parsers[CHOOSE i \in matching : \A j \in matching : i <= j].name

\* Mutant: only the empty text counts as no text.
StripsToNothingEmptyOnly(text) == text = <<>>

\* Line 53: not content.text.strip()
StripsToNothing(text) == \A i \in 1..Len(text) : text[i] \in {" ", "\n"}

\* try: parser.parse(path, **kwargs) except TypeError: parser.parse(path)
Attempt(parser, type_error) ==
  IF type_error
    THEN <<[parser |-> parser, kwargs |-> TRUE],
           [parser |-> parser, kwargs |-> FALSE]>>
    ELSE <<[parser |-> parser, kwargs |-> TRUE]>>

\* Lines 31-69: ContentRouter.parse: the parse calls it makes, in order, and
\* the parser whose ParsedContent it returns.
Routed(call) ==
  IF Lower(call.suffix) = ".pdf"
    THEN IF \/ call.indexing_mode = "fine"
            \/ call.indexing_mode = "deep"
            \/ call.pdf_mode = "vision"
           THEN [done |-> TRUE,
                 calls |-> Attempt("pdf_vision", call.type_error),
                 returned |-> "pdf_vision"]
           ELSE IF StripsToNothing(call.text)
                  THEN [done |-> TRUE,
                        calls |-> Attempt("pdf_text", call.type_error)
                                    \o Attempt("pdf_vision", call.type_error),
                        returned |-> "pdf_vision"]
                  ELSE [done |-> TRUE,
                        calls |-> Attempt("pdf_text", call.type_error),
                        returned |-> "pdf_text"]
    ELSE LET selected == SelectParser(call.parsers, call.suffix)
             parser == IF selected = "" THEN "general" ELSE selected
         IN  [done |-> TRUE, calls |-> Attempt(parser, call.type_error),
              returned |-> parser]

RouterInit ==
  /\ router_call \in RouterCalls
  /\ router_result = NoRouting
  /\ PdfDeepQuiet
  /\ TempdirsQuiet
  /\ SettingsQuiet
  /\ MemoryQuiet
  /\ DeepQuiet
  /\ EligibilityQuiet
  /\ QaQuiet
  /\ HealthQuiet

\* content_router.parse(path, indexing_mode, **kwargs)
ContentRouterParse ==
  /\ ~router_result.done
  /\ router_result' = Routed(router_call)
  /\ UNCHANGED <<router_call, pdf_input, pdf_parsed, doc_tempdir,
                 image_tempdir, live_dirs, last_parse>>
  /\ UNCHANGED outsideParsers

SpecRouter == RouterInit /\ [][ContentRouterParse]_vars

\* ------------------------------- PdfDeepParser.parse: parser/pdf_deep.py
\* A PDF has at most MaxDocPages pages.
MaxDocPages == 3

\* The text of a page after OCR and captioning, as a list of characters.
PageTexts == {<<>>, <<"a">>, <<"a", "b">>}

\* The PDFs handed to PdfDeepParser.parse: the texts of the pages, the page
\* whose processing raises (0: none), and whether the pages can be rendered.
PdfInputs ==
  UNION { [page_texts : [1..n -> PageTexts], fails_at : 0..n,
           renders : BOOLEAN] : n \in 0..MaxDocPages }

\* The pieces of a formatted string: a piece of literal text, and str() of
\* an int, of a tuple (index, text) and of a list of texts.
Str(s) == [kind |-> "str", s |-> s, index |-> 0, items |-> <<>>]
IntStr(i) == [kind |-> "int", s |-> "", index |-> i, items |-> <<>>]
TupleStr(i, page_text) ==
  [kind |-> "tuple", s |-> "", index |-> i, items |-> <<page_text>>]
ListStr(page_texts) ==
  [kind |-> "list", s |-> "", index |-> 0, items |-> page_texts]

\* Line 179: "".join([f"--PAGE_{index}--\n{page_texts}"
\*                    for index in enumerate(page_texts, start=1)]):
\* `index` is the pair (number, text) and `page_texts` is the whole list.
RECURSIVE JoinedFrom(_, _)
JoinedFrom(page_texts, i) ==
  IF i > Len(page_texts)
    THEN <<>>
    ELSE <<Str("--PAGE_"), TupleStr(i, page_texts[i]), Str("--\n"),
           ListStr(page_texts)>>
           \o JoinedFrom(page_texts, i + 1)

\* Lines 155, 168-175: cursor = 0 at the top of every iteration, so start is
\* 0 and end the length of the page text.
PageMapping(page_texts) ==
  [i \in 1..Len(page_texts) |-> <<0, 0 + Len(page_texts[i]), i>>]

\* Lines 151-177: the pages processed before the loop is left: all of them,
\* or those before the page whose processing raised (except Exception: pass).
Processed(input) ==
  IF input.fails_at = 0
    THEN input.page_texts
    ELSE SubSeq(input.page_texts, 1, input.fails_at - 1)

\* Lines 133-196: the ParsedContent of PdfDeepParser.parse; the attachments
\* and the metadata are left out.
ParsedPdf(input) ==
  IF input.renders
    THEN [done |-> TRUE, raised |-> FALSE,
          text |-> JoinedFrom(Processed(input), 1),
          page_count |-> Len(input.page_texts),
          page_mapping |-> PageMapping(Processed(input))]
    ELSE [done |-> TRUE, raised |-> TRUE, text |-> <<>>, page_count |-> 0,
          page_mapping |-> <<>>]

\* ------------------- temporary directories: doc_vision.py and pdf_deep.py
\* The names tempfile gives its directories.
MaxTempDirs == 2
DirNames == 1..MaxTempDirs

\* tempfile.TemporaryDirectory(...): a directory that does not exist yet.
NewDir(live) == CHOOSE d \in DirNames \ live : \A e \in DirNames \ live : d <= e

\* How a parse of DocVisionParser ends: soffice is not installed, the
\* conversion leaves no PDF, PdfParser.parse raises, or it returns.
DocOutcomes == {"no_soffice", "not_converted", "parse_raised", "returned"}

ParsersInit ==
  /\ pdf_input \in PdfInputs
  /\ pdf_parsed = NoParsed
  /\ TempdirsQuiet
  /\ RouterQuiet
  /\ SettingsQuiet
  /\ MemoryQuiet
  /\ DeepQuiet
  /\ EligibilityQuiet
  /\ QaQuiet
  /\ HealthQuiet

\* doc_vision.py lines 22-49: DocVisionParser.parse(path).
DocVisionParse(outcome) ==
  /\ LET kept == live_dirs \ {doc_tempdir}
     IN  IF outcome = "no_soffice"
           THEN /\ doc_tempdir' = NoDir
                /\ live_dirs' = kept
           ELSE /\ doc_tempdir' = NewDir(kept)
                /\ live_dirs' = kept \cup {NewDir(kept)}
  /\ last_parse' = [parser |-> "doc_vision",
                    ended |-> IF outcome = "returned"
                                THEN "returned" ELSE "raised"]
  /\ UNCHANGED <<router_call, router_result, pdf_input, pdf_parsed,
                 image_tempdir>>
  /\ UNCHANGED outsideParsers

\* doc_vision.py lines 51-60: close() and __del__.
DocVisionClose ==
  /\ doc_tempdir' = NoDir
  /\ live_dirs' = live_dirs \ {doc_tempdir}
  /\ last_parse' = [parser |-> "doc_vision", ended |-> "closed"]
  /\ UNCHANGED <<router_call, router_result, pdf_input, pdf_parsed,
                 image_tempdir>>
  /\ UNCHANGED outsideParsers

\* pdf_deep.py lines 47-92: turn_pdf_into_images called on its own, with
\* as_array and output_dir as given.
TurnPdfIntoImages(as_array, output_dir) ==
  /\ LET kept == live_dirs \ {image_tempdir}
     IN  IF ~as_array /\ ~output_dir
           THEN /\ image_tempdir' = NewDir(kept)
                /\ live_dirs' = kept \cup {NewDir(kept)}
           ELSE /\ image_tempdir' = NoDir
                /\ live_dirs' = kept
  /\ last_parse' = [parser |-> "pdf_deep.turn_pdf_into_images",
                    ended |-> IF pdf_input.renders
                                THEN "returned" ELSE "raised"]
  /\ UNCHANGED <<router_call, router_result, pdf_input, pdf_parsed,
                 doc_tempdir>>
  /\ UNCHANGED outsideParsers

\* pdf_deep.py lines 123-196: PdfDeepParser.parse(path); it renders the pages
\* with turn_pdf_into_images(path), as arrays.
PdfDeepParse ==
  /\ pdf_parsed' = ParsedPdf(pdf_input)
  /\ image_tempdir' = NoDir
  /\ live_dirs' = live_dirs \ {image_tempdir}
  /\ last_parse' = [parser |-> "pdf_deep",
                    ended |-> IF pdf_input.renders
                                THEN "returned" ELSE "raised"]
  /\ UNCHANGED <<router_call, router_result, pdf_input, doc_tempdir>>
  /\ UNCHANGED outsideParsers

ParsersNext ==
  \/ \E outcome \in DocOutcomes : DocVisionParse(outcome)
  \/ DocVisionClose
  \/ \E as_array \in BOOLEAN, output_dir \in BOOLEAN :
       TurnPdfIntoImages(as_array, output_dir)
  \/ PdfDeepParse

SpecParsers == ParsersInit /\ [][ParsersNext]_vars

\* ================================================================ claims
\* A call on a stored file has returned and no other call has started.
ReturnedOn(f) == pc = "idle" /\ ret # "None" /\ cur.file = f

\* The files the specification names as eligible for the deep round: images,
\* presentations, and PDF documents with a preview image or a page count.
EligibleBySpec(rec) ==
  \/ rec.kind = "image"
  \/ rec.kind = "presentation"
  \/ /\ rec.kind = "document"
     /\ rec.extension = "pdf"
     /\ (rec.preview_image \/ rec.page_count > 0)

\* C1: every file with deep_stage >= 1 has fast_stage = 2, and a process
\* call on a file whose fast_stage is not 2 returns False with no collaborator
\* call, leaving the file's deep_stage, deep chunks and deep vectors as they
\* were.
C1_DeepNeedsFast ==
  /\ \A f \in FileIds : files[f].deep_stage >= 1 => files[f].fast_stage = 2
  /\ \A f \in FileIds :
       (ReturnedOn(f) /\ files[f].fast_stage # 2)
         => /\ ret = "False"
            /\ log = <<>>
            /\ files[f].deep_stage = pre.deep_stage
            /\ DeepChunksOf(f) = pre.chunks
            /\ DeepVectorsOf(f) = pre.vectors

\* C1 witness: a call on a file whose fast round is not complete returned.
C1_Witness ==
  \E f \in FileIds :
    ReturnedOn(f) /\ files[f].fast_stage = 1 /\ cur.branch = "fast_pending"

\* C2: a step changes a file's deep_stage only from 0, 1 or -1 and only to
\* 2, -1 or -2; a process call on a file whose deep_stage is 2 or -2 returns
\* True at once, with no collaborator call (no storage write, VLM call,
\* embedding call or vector upsert) and no change to storage or vectors.
C2_StageMoves ==
  [][ /\ \A f \in FileIds :
           files'[f].deep_stage # files[f].deep_stage
             => /\ files[f].deep_stage \in {0, 1, -1}
                /\ files'[f].deep_stage \in {2, -1, -2}
      /\ \A f \in FileIds :
           (pc = "idle" /\ cur'.file = f /\ files[f].deep_stage \in {2, -2})
             => /\ pc' = "idle"
                /\ ret' = "True"
                /\ log' = <<>>
                /\ UNCHANGED <<files, chunks, vectors, pending>> ]_vars

\* C2 witness: a call on a file that is already at deep_stage 2 returned
\* True after an earlier call had written chunks for it.
C2_Witness ==
  \E f \in FileIds :
    /\ ReturnedOn(f)
    /\ cur.branch = "already_done"
    /\ ret = "True"
    /\ DeepChunksOf(f) # {}

\* C3 as claimed: whatever its fast_stage, an ineligible file on which a
\* process call has returned is at deep_stage -2 and the call returned True.
C3_SkippedWhateverFastStage ==
  \A f \in FileIds :
    (ReturnedOn(f) /\ ~EligibleBySpec(files[f]))
      => files[f].deep_stage = -2 /\ ret = "True"

\* C3, amended: an ineligible file whose fast_stage is 2 is at deep_stage -2
\* once a process call on it has returned, the call returned True and the
\* file has no deep chunk and no deep vector; deep_stage -2 is only held by
\* files whose fast_stage is 2 (a call on a file with fast_stage < 2 returns
\* False and writes nothing); and deep_stage -2 never changes again.
C3_SkippedOnceFastDone ==
  /\ [](\A f \in FileIds :
          /\ (ReturnedOn(f) /\ ~EligibleBySpec(files[f])
                /\ files[f].fast_stage = 2)
               => /\ files[f].deep_stage = -2
                  /\ ret = "True"
                  /\ DeepChunksOf(f) = {}
                  /\ DeepVectorsOf(f) = {}
                  /\ pending = {}
          /\ (ReturnedOn(f) /\ ~EligibleBySpec(files[f])
                /\ files[f].fast_stage # 2)
               => ret = "False" /\ files[f].deep_stage = 0
          /\ files[f].deep_stage = -2 => files[f].fast_stage = 2)
  /\ [][\A f \in FileIds :
          files[f].deep_stage = -2 => files'[f].deep_stage = -2]_vars

\* C3 witness: a second call on a skipped file has returned.
C3_Witness ==
  \E f \in FileIds :
    /\ ReturnedOn(f)
    /\ cur.branch = "already_skipped"
    /\ files[f].deep_stage = -2
    /\ files[f].kind = "document"

\* C4: a call that met an exception in any step after the eligibility and
\* path checks (PDF re-parse, VLM call, replace_chunks, embedding, vector
\* upsert or flush, final upsert_file) returned False and left the file at
\* deep_stage -1.
C4_AnyExceptionFails ==
  \A f \in FileIds :
    (ReturnedOn(f) /\ cur.branch = "run" /\ cur.raised # {})
      => ret = "False" /\ files[f].deep_stage = -1

\* C5: between calls, every live deep chunk of a file at deep_stage 2 has a
\* flushed vector document whose doc_id is its chunk_id, with version "deep".
C5_ChunksHaveVectors ==
  \A f \in FileIds :
    (pc = "idle" /\ files[f].deep_stage = 2)
      => \A c \in DeepChunksOf(f) :
           \E d \in vectors : d.doc_id = c.chunk_id /\ d.version = "deep"

\* C6: between calls, every deep vector document of a file has the chunk_id
\* of a live deep chunk of that file as its doc_id.
C6_NoStaleVectors ==
  \A f \in FileIds :
    pc = "idle"
      => \A d \in DeepVectorsOf(f) :
           \E c \in DeepChunksOf(f) : c.chunk_id = d.doc_id

\* C7: a call that returned False after the eligibility and path checks left
\* the file's live deep chunks and its deep vector documents as they were
\* when it started.
C7_FailureChangesNothing ==
  \A f \in FileIds :
    (ReturnedOn(f) /\ cur.branch = "run" /\ ret = "False")
      => DeepChunksOf(f) = pre.chunks /\ DeepVectorsOf(f) = pre.vectors

\* C8: a call that extracted nothing (no VLM text, no page chunk) returned
\* True and left the file at deep_stage 2 with no live deep chunk and no deep
\* vector document.
C8_NothingExtracted ==
  \A f \in FileIds :
    (ReturnedOn(f) /\ cur.no_content)
      => /\ ret = "True"
         /\ files[f].deep_stage = 2
         /\ DeepChunksOf(f) = {}
         /\ DeepVectorsOf(f) = {}

\* The pages of the chunks in a list or set.
ChunkPages(cs) == {c.page_number : c \in cs}

\* The call in flight, or the last one, ran on a PDF of K > 0 page images in
\* which the VLM call of exactly one page raised or gave no text, and no
\* other step raised.
OnePageFailed ==
  /\ cur.branch = "run"
  /\ cur.total_pages > 0
  /\ Cardinality(cur.bad_pages) = 1
  /\ cur.raised \subseteq {"vlm"}

\* C9: when the VLM call raises or gives no text for exactly one page N of a
\* K-page PDF and no other step raises, the loop builds one chunk for each of
\* the other K-1 pages, the call writes no stage while it embeds them (so
\* never -1), returns True with the file at deep_stage 2, and for K >= 2 the
\* live deep chunks are those K-1 chunks, keyed <file_id>::deep::page_M.
C9_OnePageFails ==
  \A f \in FileIds :
    /\ (OnePageFailed /\ cur.file = f /\ pc = "persist")
         => /\ Len(cur.deep_chunks) = cur.total_pages - 1
            /\ ChunkPages(SeqRange(cur.deep_chunks))
                 = (1..cur.total_pages) \ cur.bad_pages
    /\ (OnePageFailed /\ cur.file = f /\ pc \in {"embed", "finish"})
         => files[f].deep_stage = cur.rec.deep_stage
    /\ (OnePageFailed /\ ReturnedOn(f))
         => /\ ret = "True"
            /\ files[f].deep_stage = 2
            /\ cur.total_pages >= 2
                 => /\ Cardinality(DeepChunksOf(f)) = cur.total_pages - 1
                    /\ ChunkPages(DeepChunksOf(f))
                         = (1..cur.total_pages) \ cur.bad_pages
                    /\ \A c \in DeepChunksOf(f) :
                         c.chunk_id = <<f, "deep", "page", c.page_number>>

\* C9 witness: a call on a PDF of at least two pages returned after the VLM
\* call of one page, not the last, had raised.
C9_Witness ==
  \E f \in FileIds :
    /\ OnePageFailed
    /\ ReturnedOn(f)
    /\ "vlm" \in cur.raised
    /\ cur.total_pages >= 2
    /\ cur.total_pages \notin cur.bad_pages
    /\ files[f].deep_stage = 2

\* C10: when every page of a K-page PDF yields text, the call builds and
\* stores exactly K deep chunks: the N-th chunk built is that of page N, with
\* chunk_id <file_id>::deep::page_N, section_path page_N, page_number N and
\* version "deep" (so numeric page order, page_10 after page_2), and the live
\* deep chunks of the file are exactly these.
C10_OneChunkPerPage ==
  \A f \in FileIds :
    ( /\ cur.file = f
      /\ cur.branch = "run"
      /\ cur.total_pages > 0
      /\ cur.bad_pages = {}
      /\ pc \in {"embed", "finish"} )
      => /\ cur.total_pages = disk[f]
         /\ Len(cur.deep_chunks) = disk[f]
         /\ \A n \in 1..disk[f] :
              /\ cur.deep_chunks[n].chunk_id = <<f, "deep", "page", n>>
              /\ cur.deep_chunks[n].section_path = <<"page", n>>
              /\ cur.deep_chunks[n].page_number = n
              /\ cur.deep_chunks[n].version = "deep"
              /\ cur.deep_chunks[n].file_id = f
         /\ DeepChunksOf(f) = SeqRange(cur.deep_chunks)
         /\ Cardinality(DeepChunksOf(f)) = disk[f]

\* C10 witness: the chunks of a PDF of MaxPages pages (two-digit page
\* numbers) are stored and about to be embedded.
C10_Witness ==
  \E f \in FileIds :
    /\ cur.file = f
    /\ pc = "embed"
    /\ cur.bad_pages = {}
    /\ cur.total_pages = MaxPages
    /\ Cardinality(DeepChunksOf(f)) = MaxPages

\* C11: the live deep chunks of a file have pairwise distinct chunk_ids and
\* their ordinals are the dense range 0..n-1, n the number of the chunks.
C11_DenseOrdinals ==
  \A f \in FileIds :
    LET cs == DeepChunksOf(f)
    IN  /\ \A c, d \in cs : c.chunk_id = d.chunk_id => c = d
        /\ {c.ordinal : c \in cs} = 0..(Cardinality(cs) - 1)

\* The steps of a run that the ordering is about, as the log has them.
OrderedSteps ==
  {"vlm", "replace_chunks", "embed", "upsert", "flush", "upsert_file"}
Steps(l) == SelectSeq(l, LAMBDA e : e \in OrderedSteps)

\* A call returned True on a file it left at deep_stage 2 with deep chunks.
DoneWithChunks(f) ==
  /\ ReturnedOn(f)
  /\ ret = "True"
  /\ cur.branch = "run"
  /\ ~cur.no_content
  /\ files[f].deep_stage = 2
  /\ DeepChunksOf(f) # {}

DocumentOf(rec, chunk) ==
  VectorDoc(rec, chunk, Embedding(Take(Strip(chunk.text), EmbedMaxChars)))

\* C13: when the embedding client answers every batch with one vector per
\* text, the documents a run builds for the upsert are one per deep chunk, in
\* chunk order, each pairing the chunk's chunk_id with the embedding of that
\* chunk's truncated text, for every configured embed_batch_size (a value
\* below 1 counts as 1); and once the upsert and flush went through, each
\* live deep chunk has that document in the vector store.
C13_BatchSizeIrrelevant ==
  /\ (pc = "finish" /\ ~cur.short)
       => Documents(cur.rec, cur.deep_chunks, cur.vecs)
            = [i \in 1..Len(cur.deep_chunks) |->
                 DocumentOf(cur.rec, cur.deep_chunks[i])]
  /\ \A f \in FileIds :
       (DoneWithChunks(f) /\ ~cur.short /\ cur.raised \subseteq {"vlm"})
         => \A c \in DeepChunksOf(f) : DocumentOf(files[f], c) \in vectors

\* C13 witness: a run embedded the chunks of MaxPages pages in several
\* batches of more than one text and is about to build the documents.
C13_Witness ==
  /\ pc = "finish"
  /\ ~cur.short
  /\ BatchSize(embed_batch_size) > 1
  /\ Len(cur.deep_chunks) = MaxPages
  /\ Len(cur.vecs) = MaxPages

\* C15: a call on a file with fast_stage 2 and a deep_stage other than 2 and
\* -2 whose path does not exist: when the file is eligible it returns False,
\* leaves the file at deep_stage -1 and makes no other collaborator call than
\* that stage write (no VLM call, chunk write or vector upsert: deep chunks
\* and deep vectors are as before); when the file is not eligible it ends at
\* deep_stage -2 and returns True, the eligibility being decided first.
C15_MissingPath ==
  \A f \in FileIds :
    ( /\ ReturnedOn(f)
      /\ ~cur.path_exists
      /\ files[f].fast_stage = 2
      /\ pre.deep_stage \notin {2, -2} )
      => IF EligibleBySpec(files[f])
           THEN /\ ret = "False"
                /\ files[f].deep_stage = -1
                /\ log = <<"update_file_stage">>
                /\ DeepChunksOf(f) = pre.chunks
                /\ DeepVectorsOf(f) = pre.vectors
           ELSE /\ ret = "True"
                /\ files[f].deep_stage = -2

\* C15 witness: a call on an eligible file whose path is missing returned.
C15_Witness ==
  \E f \in FileIds :
    /\ ReturnedOn(f)
    /\ ~cur.path_exists
    /\ cur.branch = "path_missing"
    /\ EligibleBySpec(files[f])
    /\ files[f].deep_stage = -1

\* C14: _should_process_deep answers True exactly for an image, for a
\* presentation, and for a document with extension pdf that has a preview
\* image or a page count above 0; it answers False for every other record:
\* a PDF with no preview image and a page count of 0 or none, documents of
\* another extension (txt, md, csv among them), audio, video, other kinds.
C14_EligibleExactly ==
  verdict # "None"
    => ( verdict = "True"
           <=> \/ candidate.kind = "image"
               \/ candidate.kind = "presentation"
               \/ /\ candidate.kind = "document"
                  /\ candidate.extension = "pdf"
                  /\ \/ candidate.preview_image
                     \/ candidate.page_count \notin {PAGE_COUNT_UNSET, 0} )

\* C14 witness: the predicate was asked about a PDF document with a preview
\* image and no page count, and answered True.
C14_Witness ==
  /\ verdict = "True"
  /\ candidate.kind = "document"
  /\ candidate.extension = "pdf"
  /\ candidate.preview_image
  /\ candidate.page_count = PAGE_COUNT_UNSET

\* C16: no active stage is left set between calls; a call that set an active
\* stage made reset_active_state its last collaborator call, whether it
\* returned True, returned False or was cancelled at an await; and a call
\* that was cancelled issued no vector upsert and left the deep vectors of
\* the file as they were.
C16_ActiveStageReset ==
  /\ pc = "idle" => active_stage = "none"
  /\ \A f \in FileIds :
       (ReturnedOn(f) /\ "set_active_stage" \in SeqRange(log))
         => log[Len(log)] = "reset_active_state"
  /\ \A f \in FileIds :
       (ReturnedOn(f) /\ ret = "Cancelled")
         => /\ "upsert" \notin SeqRange(log)
            /\ DeepVectorsOf(f) = pre.vectors

\* C16 witness: a call was cancelled while it awaited an embedding batch,
\* after replace_chunks.
C16_Witness ==
  \E f \in FileIds :
    /\ ReturnedOn(f)
    /\ ret = "Cancelled"
    /\ "replace_chunks" \in SeqRange(log)
    /\ "embed" \notin SeqRange(log)
    /\ active_stage = "none"

\* The file ids F the mentions of the request resolve to, the file ids G its
\* folder ids expand to, and the allowlist the specification gives a request:
\* F \cap G with both a mention and a folder id, F or G with one, none with
\* neither.
MentionedIds(req) ==
  UNION {FindFilesByName(FileFilters(req.query)[i]) :
           i \in 1..Len(FileFilters(req.query))}
FolderFileIds(req) ==
  UNION {GetFilesInFolder(req.folder_ids[i]) : i \in 1..Len(req.folder_ids)}
HasMention(req) == FileFilters(req.query) # <<>>
HasFolderIds(req) == req.folder_ids # <<>>
ExpectedAllowlist(req) ==
  IF HasMention(req) /\ HasFolderIds(req)
    THEN IdList(MentionedIds(req) \cap FolderFileIds(req))
  ELSE IF HasMention(req) THEN IdList(MentionedIds(req))
  ELSE IF HasFolderIds(req) THEN IdList(FolderFileIds(req))
  ELSE NoneIds

PipelineOps == {"multipath_pipeline.execute", "standard_pipeline.execute"}
PipelineCalls == {i \in 1..Len(calls) : calls[i].op \in PipelineOps}
HitsEvents == {i \in 1..Len(emitted) : emitted[i].type = "hits"}

\* C17: the allowlist handed to a retrieval pipeline is F \cap G when the
\* query has a mention and folder_ids is non-empty, F with mentions only and
\* G with folder_ids only, for all F and G, empty ones included; and every
\* hit of the stream is a file of that allowlist.
C17_AllowlistIsIntersection ==
  /\ \A i \in PipelineCalls :
       calls[i].target_file_ids = ExpectedAllowlist(request)
  /\ \A i \in HitsEvents :
       \/ ExpectedAllowlist(request).is_none
       \/ emitted[i].hits \subseteq ExpectedAllowlist(request).ids

\* C18: when the request names a scope (a mention or a folder id) and the
\* allowlist of that scope is empty, no retrieval pipeline is run with
\* target_file_ids None and the stream holds no hits event.
C18_EmptyScopeIsNoResults ==
  ( /\ HasMention(request) \/ HasFolderIds(request)
    /\ ExpectedAllowlist(request).ids = {} )
    => /\ \A i \in PipelineCalls : ~calls[i].target_file_ids.is_none
       /\ HitsEvents = {}

\* The events of the stream are: one status "answering", then n token
\* events, then at most one error event, then one done event.
DirectStream(llm_chunks, errors) ==
  <<Event("status", "answering")>>
  \o Tokens(llm_chunks)
  \o [i \in 1..errors |-> Event("error", "LLM generation failed.")]
  \o <<Event("done", "")>>

\* C19: with search_mode "direct" or mode "chat" the generator calls nothing
\* but the LLM stream (no intent routing, no query analysis, no pipeline),
\* yields no hits and no thinking_step event, and its finished stream is one
\* status event "answering", then token events, then at most one error
\* event, then one done event.
C19_DirectBypassesRetrieval ==
  (request.search_mode = "direct" \/ request.mode = "chat")
    => /\ \A i \in 1..Len(calls) : calls[i].op = "stream_chat_complete"
       /\ \A i \in 1..Len(emitted) :
            emitted[i].type \notin {"hits", "thinking_step"}
       /\ qa_pc \in {"idle", "direct", "finished"}
       /\ qa_pc = "direct" => emitted = <<Event("status", "answering")>>
       /\ qa_pc = "finished"
            => \E llm_chunks \in SeqsUpTo(Chunks, Len(emitted)), errors \in {0, 1} :
                 emitted = DirectStream(llm_chunks, errors)

\* C19 witness: a chat request in search_mode "auto" finished with a token,
\* an error event and done.
C19_Witness ==
  /\ request.mode = "chat"
  /\ request.search_mode = "auto"
  /\ qa_pc = "finished"
  /\ emitted = DirectStream(<<"chunk">>, 1)

\* C20: with search_mode "knowledge" and a mode other than "chat", intent
\* routing is never called, and once the generator is past the query
\* analysis it runs a retrieval pipeline: a stream that is synthesizing, has
\* finished or has raised has called the Standard or the MultiPath pipeline.
C20_KnowledgeForcesRetrieval ==
  (request.search_mode = "knowledge" /\ request.mode # "chat")
    => /\ \A i \in 1..Len(calls) : calls[i].op # "query_intent_routing"
       /\ qa_pc \in {"idle", "analyze", "multipath", "standard", "synthesis",
                     "finished", "raised"}
       /\ qa_pc \in {"synthesis", "finished", "raised"} => PipelineCalls # {}

\* C20 witness: a knowledge request finished after the Standard pipeline had
\* run on its allowlist.
C20_Witness ==
  /\ request.search_mode = "knowledge"
  /\ request.mode = "qa"
  /\ qa_pc = "finished"
  /\ \E i \in PipelineCalls : calls[i].op = "standard_pipeline.execute"
  /\ HitsEvents # {}

\* The stream has ended: the generator returned, or an exception left it.
StreamOver == qa_pc \in {"finished", "raised"}

\* C21: when a collaborator of the stream has raised (intent routing, query
\* analysis, a retrieval pipeline, the synthesis, an LLM stream), the stream
\* that has ended closes with an error event followed by the done event.
C21_FailureEndsWithErrorDone ==
  (StreamOver /\ qa.raised # {})
    => /\ Len(emitted) >= 2
       /\ emitted[Len(emitted)].type = "done"
       /\ emitted[Len(emitted) - 1].type = "error"

\* The event types of the streamed output protocol.
ProtocolTypes == {"status", "thinking_step", "hits", "token", "error", "done"}

\* C22: every event of the stream has one of the six types of the protocol,
\* and a done event is the last event of the stream: there is at most one
\* and nothing follows it.
C22_ProtocolEvents ==
  \A i \in 1..Len(emitted) :
    /\ emitted[i].type \in ProtocolTypes
    /\ emitted[i].type = "done" => i = Len(emitted)

\* The query the collaborators are to receive: the cleaned query when the
\* raw query has mentions, the raw query otherwise.
QueryForSearch ==
  IF FileFilters(request.query) # <<>>
    THEN CleanQuery(request.query) ELSE request.query

\* C23: a stream makes at most one pipeline call, and none before the query
\* analysis; once it is past the pipeline call (it synthesizes, or it has
\* ended after the analysis) it has made exactly one, right after the
\* analysis: MultiPath exactly when analyze_query returned
\* needs_decomposition = true, Standard otherwise, and when analyze_query
\* raised, Standard on the cleaned query.
C23_OnePipelineOnce ==
  LET analysed == \E i \in 1..Len(calls) : calls[i].op = "analyze_query"
  IN  /\ Cardinality(PipelineCalls) <= 1
      /\ qa_pc \in {"idle", "direct", "routing", "no_tools", "analyze",
                    "multipath", "standard"} => PipelineCalls = {}
      /\ (qa_pc = "synthesis" \/ (StreamOver /\ analysed))
           => Cardinality(PipelineCalls) = 1
      /\ \A i \in PipelineCalls :
           /\ i > 1 /\ calls[i - 1].op = "analyze_query"
           /\ calls[i].op = "multipath_pipeline.execute"
                <=> (qa.needs_decomposition /\ "analyze_query" \notin qa.raised)
           /\ calls[i].op = "standard_pipeline.execute"
                <=> ~(qa.needs_decomposition /\ "analyze_query" \notin qa.raised)
           /\ "analyze_query" \in qa.raised
                => /\ calls[i].op = "standard_pipeline.execute"
                   /\ calls[i].query = QueryForSearch

\* C23 witness: analyze_query raised for a query with a mention, and the
\* Standard pipeline has run on the cleaned query.
C23_Witness ==
  /\ "analyze_query" \in qa.raised
  /\ FileFilters(request.query) # <<>>
  /\ qa_pc = "synthesis"
  /\ \E i \in PipelineCalls :
       /\ calls[i].op = "standard_pipeline.execute"
       /\ calls[i].query = CleanQuery(request.query)
       /\ calls[i].query # request.query

\* The synthesis has been called.
SynthesisCalled ==
  \E i \in 1..Len(calls) : calls[i].op = "stream_simple_aggregation"

\* index of every element, in order
IndexesOf(answers) == [i \in 1..Len(answers) |-> answers[i].index]

\* C24: the inputs handed to the synthesis are exactly the candidates of the
\* sub_answers event that have has_answer = true and a confidence of at
\* least 0.5 (5 tenths), in their order; a candidate with a lower confidence
\* or with none is no input.
C24_SynthesisInputsVerified ==
  SynthesisCalled
    => IndexesOf(qa.synthesis_inputs)
         = IndexesOf(SelectSeq(qa.sub_answers,
                               LAMBDA ans : /\ ans.has_answer
                                            /\ ans.confidence # CONFIDENCE_UNSET
                                            /\ ans.confidence >= 5))

\* The Standard pipeline has run and verified no chunk: it reported no
\* matching files (the stream finished without a synthesis), or no candidate
\* of its sub answers has has_answer.
StandardCalled ==
  \E i \in 1..Len(calls) : calls[i].op = "standard_pipeline.execute"
NoMatchingFiles == StandardCalled /\ qa_pc = "finished" /\ ~SynthesisCalled
NoCandidateVerified ==
  /\ StandardCalled
  /\ qa_pc \in {"synthesis", "finished"}
  /\ ~NoMatchingFiles
  /\ \A i \in 1..Len(qa.sub_answers) : ~qa.sub_answers[i].has_answer

\* C25: when the Standard pipeline has verified no chunk, the synthesis is
\* not called; the finished stream carries the text "I couldn't find any
\* relevant documents." and no error event; and the answer of the one-shot
\* form is that text.
C25_NoVerifiedChunk ==
  /\ NoCandidateVerified => ~SynthesisCalled
  /\ ((NoMatchingFiles \/ NoCandidateVerified) /\ qa_pc = "finished")
       => /\ \E i \in 1..Len(emitted) : emitted[i].data = NotFoundText
          /\ \A i \in 1..Len(emitted) : emitted[i].type # "error"
          /\ response # NoResponse => response.answer = <<NotFoundText>>

\* The token payloads of the events in order, with "\nError: <text>" in the
\* place of every error event.
RECURSIVE TextOfStream(_)
TextOfStream(events) ==
  IF events = <<>> THEN <<>>
  ELSE (IF Head(events).type = "token" THEN <<Head(events).data>>
        ELSE IF Head(events).type = "error"
          THEN <<"\n", "Error: ", Head(events).data>>
        ELSE <<>>)
       \o TextOfStream(Tail(events))

\* The hits of the hits events in order.
HitsOfStream(events) ==
  LET hits == SelectSeq(events, LAMBDA event : event.type = "hits")
  IN  [i \in 1..Len(hits) |-> hits[i].hits]

\* C26: what answer() returns is a QaResponse.  After a stream that
\* finished, its answer is the concatenation of the token payloads in order,
\* with the text of the error events in their place, trimmed, and its hits
\* are those of the hits events in order; after a stream that raised, its
\* hits are empty.
C26_AnswerAccumulates ==
  response # NoResponse
    => /\ response.returned = "QaResponse"
       /\ StreamOver
       /\ qa_pc = "finished"
            => /\ response.answer = StripText(TextOfStream(emitted))
               /\ response.hits = HitsOfStream(emitted)
       /\ qa_pc = "raised" => response.hits = <<>>

\* C26 witness: the one-shot answer of a stream with hits, a token and a
\* failed synthesis.
C26_Witness ==
  /\ response.returned = "QaResponse"
  /\ qa_pc = "finished"
  /\ response.hits # <<>>
  /\ response.answer = <<"chunk", "\n", "Error: ", "synthesis failed">>

\* The positions of the words of plain text in a query, in order.
TextPositions(q) ==
  LET at == {i \in 1..Len(q) : q[i] = Text}
  IN  [k \in 1..Cardinality(at) |->
         CHOOSE i \in at : Cardinality({j \in at : j < i}) = k - 1]

\* The calls that hand a query to intent routing, to the query analysis or
\* to a retrieval pipeline.
SearchCalls ==
  {i \in 1..Len(calls) :
     calls[i].op \in {"query_intent_routing", "analyze_query"} \cup PipelineOps}

CheckReturned == health_pc \in {"idle", "gather"} /\ check.name # ""
ProbeReturned == CheckReturned /\ check.requests # <<>>

\* C28: a probe requests <url>/health first; it requests <url> as well
\* exactly when the first answer is a response of status 404, and nothing
\* more; its result is online exactly when the answer to its last request
\* is a response with a status in 200..499, and offline otherwise (a
\* response of status 500 or more, or a transport error of that request).
C28_ProbeAndFallback ==
  /\ health_pc = "probe_health"
       => check.requests = <<>> /\ check.responses = <<>>
  /\ health_pc = "probe_root"
       => /\ check.requests = <<"/health">>
          /\ check.responses = <<Response(404)>>
  /\ ProbeReturned
       => LET last == check.responses[Len(check.responses)]
          IN  /\ Len(check.responses) = Len(check.requests)
              /\ check.requests \in {<<"/health">>, <<"/health", "/">>}
              /\ Len(check.requests) = 2 <=> check.responses[1] = Response(404)
              /\ check.result.status = "online"
                   <=> /\ ~last.raised
                       /\ last.status_code >= 200
                       /\ last.status_code <= 499
              /\ check.result.status = "offline"
                   <=> (last.raised \/ last.status_code >= 500)
              /\ check.result.name = check.name

\* C28 witness: both requests were answered 404 and the service is online.
C28_Witness ==
  /\ ProbeReturned
  /\ check.requests = <<"/health", "/">>
  /\ check.responses = <<Response(404), Response(404)>>
  /\ check.result.status = "online"

\* The key of the last check_service call.
CheckKey == <<check.name, check.url>>

\* C29: a check_service call for a configured URL made less than 10 s after
\* the end of the last completed probe of its key makes no HTTP request and
\* returns the result of that probe; a call made 10 s or more after it, or
\* with no probe of its key before it, probes, and the result of its probe
\* is the cache entry of the key.  A step changes the cache entry of a key
\* only as the end of a probe of that key.
C29_CacheByKey ==
  /\ [](/\ \A key \in CacheKeys : service_cache[key] = last_probe[key]
        /\ (CheckReturned /\ check.url # NoUrl)
             => IF check.prior.set /\ check.now - check.prior.time < 10
                  THEN /\ check.requests = <<>>
                       /\ check.result = check.prior.status
                       /\ last_probe[CheckKey] = check.prior
                  ELSE /\ check.requests # <<>>
                       /\ last_probe[CheckKey].set
                       /\ last_probe[CheckKey].status = check.result
                       /\ last_probe[CheckKey].time >= check.now)
  /\ [][\A key \in CacheKeys :
          service_cache'[key] # service_cache[key]
            => /\ health_pc \in {"probe_health", "probe_root"}
               /\ health_pc' = "gather"
               /\ key = <<check.name, check.url>>
               /\ service_cache'[key] =
                    [status |-> check'.result, time |-> clock, set |-> TRUE]]_vars

\* C29 witness: an offline result cached 5 s before the call is returned
\* without a request, while another key has an online entry.
C29_Witness ==
  /\ CheckReturned
  /\ check.requests = <<>>
  /\ check.prior.set
  /\ check.now - check.prior.time = 5
  /\ check.result = check.prior.status
  /\ check.result.status = "offline"
  /\ \E key \in CacheKeys :
       /\ key # CheckKey
       /\ service_cache[key].set
       /\ service_cache[key].status.status = "online"

\* read_health has answered.
HealthReturned == health_pc = "idle" /\ health # NoHealth

\* C30: a check_service call for an endpoint that is not configured returns
\* status unknown with details "URL not configured", makes no HTTP request
\* and leaves no cache entry under its name; and when the embedding or the
\* rerank endpoint is not configured, read_health answers status degraded.
C30_MissingEndpointDegrades ==
  /\ (CheckReturned /\ check.url = NoUrl)
       => /\ check.result =
               ServiceStatus(check.name, "unknown", "URL not configured")
          /\ check.requests = <<>>
          /\ \A url \in Urls : ~service_cache[<<check.name, url>>].set
  /\ (HealthReturned /\ (endpoints.embedding = NoUrl \/ endpoints.rerank = NoUrl))
       => health.status = "degraded"

\* C31: the status of a HealthResponse is degraded exactly when one of its
\* services is offline, and its message is then not empty; with no service
\* offline it is indexing exactly when the indexer is running or paused,
\* else ready with an indexed file and idle with none.
C31_HealthStatus ==
  HealthReturned
    => LET offline == \E i \in 1..Len(health.services) :
                        health.services[i].status = "offline"
       IN  /\ health.status = "degraded" <=> offline
           /\ offline => health.message # ""
           /\ ~offline
                => /\ health.status = "indexing"
                        <=> health.progress \in {"running", "paused"}
                   /\ health.progress \notin {"running", "paused"}
                        => health.status = IF health.indexed_files > 0
                                             THEN "ready" ELSE "idle"

\* C31 witness: the second service is offline while the indexer runs and a
\* file is indexed: the status is degraded.
C31_Witness ==
  /\ HealthReturned
  /\ health.services[1].status = "online"
  /\ health.services[2].status = "offline"
  /\ health.progress = "running"
  /\ health.indexed_files = 1
  /\ health.status = "degraded"
  /\ health.message = "indexing"

\* C32: a GET /settings/ that follows a completed PATCH /settings/ returns,
\* for every key of the PATCH body (pdf_mode included), exactly the posted
\* value, and for every other key it returns the value the settings had
\* before the PATCH.
C32_PatchThenGet ==
  [][(GetSettings /\ last_patch.done)
       => \A key \in BodyKeys :
            IF key \in DOMAIN last_patch.body
              THEN /\ key \in DOMAIN got'.view
                   /\ got'.view[key] = last_patch.body[key]
              ELSE key \in DOMAIN got'.view
                     => got'.view[key] = SettingsView(last_patch.before)[key]]_vars

\* C33: the numeric settings are valid in every state, in memory and in the
\* saved file: embed_batch_size >= 1 and no limit is negative.
C33_NumbersValid ==
  /\ settings.embed_batch_size >= 1
  /\ settings.search_result_limit >= 0
  /\ settings_file.embed_batch_size >= 1
  /\ settings_file.search_result_limit >= 0

\* C34: a GET /settings/ never answers with the settings of a PATCH that has
\* assigned some of its fields and not all; and when no update_settings is
\* running, every field holds the value of the last completed PATCH that set
\* it (the default when none did).
C34_HandlersAtomic ==
  /\ got.done => ~got.partial
  /\ (\A h \in 1..MaxHandlers : handlers[h].pc # "running")
       => \A key \in SettingsKeys : settings[key] = expected[key]

\* C34 witness: of two PATCH requests in flight together, both naming
\* embed_batch_size, the second has completed and a GET has answered with
\* its value while the first still waits.
C34_Witness ==
  /\ got.done
  /\ got.view["embed_batch_size"] = JInt(2)
  /\ last_patch.done
  /\ DOMAIN last_patch.body = {"embed_batch_size", "default_indexing_mode"}
  /\ handlers[1].pc = "pending"
  /\ "embed_batch_size" \in DOMAIN handlers[1].update
  /\ handlers[1].update["embed_batch_size"] = 0
  /\ handlers[2].pc = "free"

\* The table of a memory type.
TableOf(memory_type) ==
  CASE memory_type = "episode" -> memory_episodes
    [] memory_type = "event_log" -> memory_event_logs
    [] memory_type = "foresight" -> memory_foresights

\* memory_fts holds one row of the given content for the record, and no
\* other row of its id and type.
OneFtsRow(memory_id, memory_type, content) ==
  LET rows == {r \in BagToSet(memory_fts) :
                 r.memory_id = memory_id /\ r.memory_type = memory_type}
  IN  /\ Cardinality(rows) = 1
      /\ \A r \in rows : CopiesIn(r, memory_fts) = 1 /\ r.content = content

\* C35: memory_fts holds exactly one row per episode, event log and
\* foresight of the tables, of the content of the record, and no row whose
\* record is not in its table (a deleted episode has none).
C35_FtsMirrorsTables ==
  /\ \A record \in memory_episodes :
       OneFtsRow(record.id, "episode", EpisodeContent(record))
  /\ \A record \in memory_event_logs :
       OneFtsRow(record.id, "event_log", EventLogContent(record))
  /\ \A record \in memory_foresights :
       OneFtsRow(record.id, "foresight", ForesightContent(record))
  /\ \A r \in BagToSet(memory_fts) :
       \E record \in TableOf(r.memory_type) : record.id = r.memory_id

\* C35 witness: an episode and an event log of the same id, the episode
\* upserted again since it was created (by the other user), next to a
\* foresight: three rows in memory_fts, none for episode m2.
C35_Witness ==
  /\ \E record \in memory_episodes :
       /\ record.id = "m1" /\ record.user_id = "alice"
       /\ record.summary = "plan" /\ record.episode = "paris"
  /\ \E r \in BagToSet(memory_fts) :
       r.memory_id = "m1" /\ r.memory_type = "episode" /\ r.user_id = "bob"
  /\ \E record \in memory_event_logs : record.id = "m1"
  /\ memory_foresights # {}
  /\ BagCardinality(memory_fts) = 3

\* C40: every row of memory_fts carries the user_id of the record of its
\* memory table, and search_memories(user_id, query) returns only memories
\* whose record belongs to user_id.
C40_FtsUserMatches ==
  /\ \A r \in BagToSet(memory_fts) :
       \A record \in TableOf(r.memory_type) :
         record.id = r.memory_id => record.user_id = r.user_id
  /\ found.done
       => \A hit \in found.rows :
            \A record \in TableOf(hit.memory_type) :
              record.id = hit.memory_id => record.user_id = found.user_id

\* The first parser of the list that takes the suffix, "general" when none.
FirstMatching(call) ==
  LET taking(i) == call.suffix \in call.parsers[i].suffixes
  IN  IF \E i \in 1..Len(call.parsers) : taking(i)
        THEN LET first == CHOOSE i \in 1..Len(call.parsers) :
                            taking(i) /\ \A j \in 1..(i - 1) : ~taking(j)
             IN  call.parsers[first].name
        ELSE "general"

\* C37: on a .pdf path the router returns the vision parser's result exactly
\* when indexing_mode is deep or fine, or pdf_mode is vision, or the text
\* parser's text is empty or whitespace only, and the text parser's result
\* otherwise; on any other path it returns the result of the first matching
\* parser of its list, of the general parser when none matches.
C37_RouterChoice ==
  router_result.done
    => LET call == router_call
           blank == call.text \in {<<>>, <<" ", "\n">>}
       IN  IF call.suffix \in {".pdf", ".PDF"}
             THEN /\ router_result.returned = "pdf_vision"
                       <=> \/ call.indexing_mode \in {"deep", "fine"}
                           \/ call.pdf_mode = "vision"
                           \/ blank
                  /\ router_result.returned \in {"pdf_vision", "pdf_text"}
             ELSE router_result.returned = FirstMatching(call)

\* C37 witness: a fast-mode PDF whose text is whitespace only goes to the
\* text parser and then to the vision parser.
C37_Witness ==
  /\ router_result.done
  /\ router_call.suffix = ".pdf"
  /\ router_call.indexing_mode = "fast"
  /\ router_call.pdf_mode = "text"
  /\ router_call.text = <<" ", "\n">>
  /\ ~router_call.type_error
  /\ router_result.calls
       = <<[parser |-> "pdf_text", kwargs |-> TRUE],
           [parser |-> "pdf_vision", kwargs |-> TRUE]>>
  /\ router_result.returned = "pdf_vision"

\* C36: when a parse of DocVisionParser or of PdfDeepParser has returned or
\* raised, the parser instance holds no temporary directory.
C36_NoTempdirAfterParse ==
  /\ (last_parse.parser = "doc_vision"
        /\ last_parse.ended \in {"returned", "raised"})
       => doc_tempdir = NoDir /\ doc_tempdir \notin live_dirs
  /\ (last_parse.parser = "pdf_deep"
        /\ last_parse.ended \in {"returned", "raised"})
       => image_tempdir = NoDir /\ image_tempdir \notin live_dirs

\* The text of the claim: the pages in order, each after its own header,
\* with a blank line between two pages.
RECURSIVE PagesWithHeaders(_, _)
PagesWithHeaders(page_texts, i) ==
  IF i > Len(page_texts)
    THEN <<>>
    ELSE <<Str("--PAGE_"), IntStr(i), Str("--\n")>>
           \o [j \in 1..Len(page_texts[i]) |-> Str(page_texts[i][j])]
           \o (IF i < Len(page_texts) THEN <<Str("\n\n")>> ELSE <<>>)
           \o PagesWithHeaders(page_texts, i + 1)

\* C38: the text PdfDeepParser.parse returns is the page texts in page
\* order, each after its --PAGE_N-- header, separated by a blank line, and
\* page_mapping has one (start, end, page) entry per page, of the length of
\* the page text, each range starting at or after the end of the one before.
C38_PagesInOrder ==
  (pdf_parsed.done /\ ~pdf_parsed.raised)
    => /\ pdf_parsed.text = PagesWithHeaders(pdf_input.page_texts, 1)
       /\ Len(pdf_parsed.page_mapping) = pdf_parsed.page_count
       /\ \A i \in 1..Len(pdf_parsed.page_mapping) :
            /\ pdf_parsed.page_mapping[i][3] = i
            /\ pdf_parsed.page_mapping[i][2] - pdf_parsed.page_mapping[i][1]
                 = Len(pdf_input.page_texts[i])
            /\ i > 1 => pdf_parsed.page_mapping[i][1]
                          >= pdf_parsed.page_mapping[i - 1][2]

\* C39: only the other writer changes the fast_stage of a file: no step of
\* process does, so the value the writer stored stays in storage when
\* process writes its final record.
C39_FastStageKept ==
  [][\/ \E fid \in FileIds, stage \in FastStages : ResetFastStage(fid, stage)
     \/ \A fid \in FileIds : files'[fid].fast_stage = files[fid].fast_stage]_vars

====
